---- MODULE Spec2Model ----
(***************************************************************************)
(* State synchronisation engine of the goveelife integration: the shared   *)
(* entry store hass.data[DOMAIN][entry_id] (state cache and daily call     *)
(* counter), the typed API client (api.py), the legacy helpers (utils.py)  *)
(* that fan/light/climate still call, and the per-device coordinator.      *)
(***************************************************************************)
EXTENDS Integers, Sequences, FiniteSets, TLC

\* ------------------------------------------------------------------ bounds
MaxValue == 1
MaxDay == 2
MaxCalls == 2

\* Options in one modeValue field of a work-mode descriptor.
MaxOptions == 2

\* Entries of a capability list handed to the readers.
MaxEntries == 3

\* --------------------------------------------------------------- universe
Devices == {"d1", "d2"}
Values == 0..MaxValue
Days == 1..MaxDay

\* A capability value that is absent (Python None).
NoValue == -1

\* Members of the CapabilityType enum that the model uses.
CapabilityType == {"on_off", "range", "work_mode"}

\* (type, instance) pairs the vendor reports; "online" is reported by the
\* vendor and read by entities.available, but is no member of CapabilityType.
CapKeys ==
  { [type |-> "on_off", instance |-> "powerSwitch"],
    [type |-> "range", instance |-> "humidity"],
    [type |-> "online", instance |-> "online"] }

\* One CapabilityState entry: state = {"value": value}.
CapStates == [type : {"on_off", "range", "online"},
              instance : {"powerSwitch", "humidity", "online"},
              value : Values]

\* The online capability is a boolean, 1 for true.
Caps ==
  { c \in CapStates :
      /\ [type |-> c.type, instance |-> c.instance] \in CapKeys
      /\ c.type = "online" => c.value \in {0, 1} }

SameKey(a, b) == a.type = b.type /\ a.instance = b.instance

NoDuplicates(s) ==
  \A i, j \in 1..Len(s) : SameKey(s[i], s[j]) => i = j

\* The (type, instance) pairs each device declares, in the vendor's order;
\* static for the device's lifetime.  d1 declares enum types only, d2 is
\* reported with the vendor's "online" capability.
DeviceKeys ==
  [d \in Devices |->
     IF d = "d1"
       THEN << [type |-> "on_off", instance |-> "powerSwitch"],
               [type |-> "range", instance |-> "humidity"] >>
       ELSE << [type |-> "online", instance |-> "online"],
               [type |-> "on_off", instance |-> "powerSwitch"] >>]

\* Vendor payloads for device d: one entry per declared (type, instance), in
\* the declared order, each with a current value.
Payloads(d) ==
  { s \in [1..Len(DeviceKeys[d]) -> Caps] :
      \A i \in 1..Len(DeviceKeys[d]) :
        /\ s[i].type = DeviceKeys[d][i].type
        /\ s[i].instance = DeviceKeys[d][i].instance }

\* A cached DeviceState or its absence (key missing in entry_data[CONF_STATE]).
NoState == [present |-> FALSE, caps |-> <<>>]
SomeState(s) == [present |-> TRUE, caps |-> s]

\* A ControlCommand {type, instance, value}; its type is a CapabilityType.
Commands == { c \in Caps : c.type \in CapabilityType }
NoCommand == [type |-> "none", instance |-> "none", value |-> NoValue]

\* ------------------------------------------------------------- the fixture
\* data.cloud_states of the operator's fixture file: per device a recorded
\* payload (a diagnostics dump of the cache), here with online true and every
\* other value 0.
FixtureStates ==
  [d \in Devices |->
     [i \in 1..Len(DeviceKeys[d]) |->
        [type |-> DeviceKeys[d][i].type,
         instance |-> DeviceKeys[d][i].instance,
         value |-> IF DeviceKeys[d][i].type = "online" THEN 1 ELSE 0]]]

\* ------------------------------------------------------------------ models
\* DeviceStateResponse(**data): pydantic validation of every capability type.
validates(caps) == \A i \in 1..Len(caps) : caps[i].type \in CapabilityType

\* DeviceStateResponse.get_capability: index of the first match, 0 if none.
get_capability(caps, type, instance) ==
  IF \E i \in 1..Len(caps) : caps[i].type = type /\ caps[i].instance = instance
    THEN CHOOSE i \in 1..Len(caps) :
           /\ caps[i].type = type /\ caps[i].instance = instance
           /\ \A j \in 1..(i - 1) : ~(caps[j].type = type /\ caps[j].instance = instance)
    ELSE 0

\* DeviceStateResponse.get_capability_value with DeviceStateCapability.get_value.
model_get_capability_value(caps, type, instance) ==
  LET i == get_capability(caps, type, instance)
  IN  IF i = 0 THEN NoValue ELSE caps[i].value

\* ------------------------------------------------------------------- cache
\* GoveeStateCache.__getitem__: the stored dict parsed back into the model;
\* a missing entry or one that fails validation reads as None.
cache_getitem(st, d) ==
  IF st[d].present /\ validates(st[d].caps) THEN st[d] ELSE NoState

\* A put that loses the write.
cache_setitem_lost(st, d, caps) == st

\* GoveeStateCache.__setitem__: model_dump of the validated state.
cache_setitem(st, d, caps) == [st EXCEPT ![d] = SomeState(caps)]

\* GoveeStateCache.get_capability_value.
get_capability_value(st, d, type, instance) ==
  LET state == cache_getitem(st, d)
  IN  IF state.present
        THEN model_get_capability_value(state.caps, type, instance)
        ELSE NoValue

\* utils.GoveeAPI_GetCachedStateValue: raw scan, the last match wins.
GoveeAPI_GetCachedStateValue(st, d, type, instance) ==
  IF ~st[d].present THEN NoValue
  ELSE LET caps == st[d].caps
           hits == { i \in 1..Len(caps) :
                       caps[i].type = type /\ caps[i].instance = instance }
       IN  IF hits = {} THEN NoValue
           ELSE caps[CHOOSE i \in hits : \A j \in hits : j <= i].value


\* ------------------------------------------------------- vendor responses
\* What the vendor cloud answers to one POST/GET.  http = 0 stands for a
\* transport exception (connection error, timeout, malformed JSON body).
\* A 200 answer to device/state carries a payload or not; a 200 answer to
\* device/control echoes the sent capability with a state status, or carries
\* no capability.
NoResponse ==
  [http |-> -1, payload |-> NoState, hasCap |-> FALSE, status |-> ""]

StateResponses(d) ==
  { [http |-> 200, payload |-> SomeState(p), hasCap |-> FALSE, status |-> ""] :
      p \in Payloads(d) }
  \cup { [http |-> h, payload |-> NoState, hasCap |-> FALSE, status |-> ""] :
           h \in {200, 401, 429, 500, 0} }

ControlResponses ==
  { [http |-> 200, payload |-> NoState, hasCap |-> TRUE, status |-> s] :
      s \in {"success", "failure"} }
  \cup { [http |-> h, payload |-> NoState, hasCap |-> FALSE, status |-> ""] :
           h \in {200, 429} }

ListResponses ==
  { [http |-> h, payload |-> NoState, hasCap |-> FALSE, status |-> ""] :
      h \in {200, 429, 0} }

\* ------------------------------------------------------------------- state
VARIABLES
  states,          \* entry_data[CONF_STATE]: device id -> cached DeviceState
  apiCount,        \* entry_data[CONF_API_COUNT]
  today,           \* date.today()
  callsMade,       \* history: outbound HTTP calls really made, per date
  fixture,         \* the fixture (debug) file is present
  scanInterval,    \* entry_data[CONF_SCAN_INTERVAL], 0 for None
  updateInterval,  \* coordinator.update_interval per device, seconds
  clientSession,   \* client object -> its _session is an open ClientSession
  sessions,        \* history: ClientSessions created and not closed
  inFlight,        \* device -> its coordinator awaits the answer to a poll
  control,         \* device -> the control command that awaits its answer
  loaded,          \* hass.data[DOMAIN] holds the entry's store
  platform,        \* the entity class whose mode table is followed
  table,           \* that class's preset mappings and mode list
  reg,             \* the class's first registration; later ones counted
  lastMode,        \* device -> its humidifier entity's _last_mode
  lastHumidityByMode, \* GoveeLifeHumidifier._last_humidity_by_mode
  humidityOf,      \* history: device -> mode -> humidity last set on it with success
  request,         \* history: what the last entity handler was asked for
  last             \* the operation that ran last and what it returned

vars ==
  << states, apiCount, today, callsMade, fixture, scanInterval,
     updateInterval, clientSession, sessions, inFlight, control, loaded, platform,
     table, reg, lastMode, lastHumidityByMode, humidityOf, request, last >>

\* The client objects that live as long as the entry: the one
\* async_setup_entry creates and the one an entity caches.
Clients == {"setup", "entity"}

sessionVars == << clientSession, sessions >>

modeVars == << platform, table, reg >>

entityVars == << lastMode, lastHumidityByMode, humidityOf, request >>

pollVars ==
  << inFlight, control, loaded, platform, table, reg, lastMode, lastHumidityByMode, humidityOf,
     request >>

\* ------------------------------------------------------------ call counter
NoCount ==
  [present |-> FALSE, legacy |-> FALSE, count |-> 0, date |-> 0,
   perDay |-> [d \in Days |-> 0]]

\* GoveeApiClient._request, lines 83-86: a dict keyed by str(date.today()).
request_count(ac, day) ==
  [ac EXCEPT !.present = TRUE, !.perDay[day] = ac.perDay[day] + 1]

\* utils.async_GooveAPI_CountRequests: one {count, date} record under the
\* same key; a dict without the "date" key raises KeyError, which is logged
\* and swallowed.
async_GooveAPI_CountRequests(ac, day) ==
  IF ~ac.present
    THEN [ac EXCEPT !.present = TRUE, !.legacy = TRUE, !.count = 1, !.date = day]
  ELSE IF ~ac.legacy
    THEN ac
  ELSE IF ac.date = day
    THEN [ac EXCEPT !.count = ac.count + 1]
  ELSE [ac EXCEPT !.count = 1]

RECURSIVE SumTo(_, _)
SumTo(f, n) == IF n = 0 THEN 0 ELSE f[n] + SumTo(f, n - 1)

CallsTotal == SumTo(callsMade, MaxDay)

\* One more outbound call fits the model's bound.
MayCall == CallsTotal < MaxCalls


\* ----------------------------------------------------- results of one call
\* What an operation hands back.  kind: "state" / "none" / "raise" for
\* get_device_state; "resp" / "none" / "raise" for control_device; "true" /
\* "false" / "error" for the legacy helpers; "devices" for a device list.
\* compat and client are what the two wrappers of control_device report.
NoRet ==
  [kind |-> "none", state |-> NoState, code |-> 0, status |-> "",
   cap |-> NoCommand, errorCode |-> 0, errorMsg |-> "",
   compat |-> "", client |-> ""]

Ret(kind) == [NoRet EXCEPT !.kind = kind]

Record(op, d, cmd, resp, ret, calls, put) ==
  [op |-> op, dev |-> d, cmd |-> cmd, resp |-> resp, ret |-> ret,
   calls |-> calls, put |-> put]

\* ---------------------------------------------------------- GoveeApiClient
\* _request for a POST: "raise" when the transport or json.loads raises (the
\* log_errors handler then reads self.name, which the client does not have),
\* "error" for the {"code", "msg"} dict of a non-200 status, "json" for the
\* decoded body.
post_kind(resp) ==
  IF resp.http = 0 THEN "raise"
  ELSE IF resp.http # 200 THEN "error"
  ELSE "json"

\* get_device_state, the returned value.
get_device_state_ret(fx, d, resp) ==
  IF fx
    THEN IF validates(FixtureStates[d])
           THEN [Ret("state") EXCEPT !.state = SomeState(FixtureStates[d])]
           ELSE Ret("raise")
  ELSE IF post_kind(resp) = "raise" THEN Ret("raise")
  ELSE IF post_kind(resp) = "error" \/ ~resp.payload.present THEN Ret("none")
  ELSE IF ~validates(resp.payload.caps) THEN Ret("raise")
  ELSE [Ret("state") EXCEPT !.state = resp.payload]

\* A fetch that keeps the cached entries the new payload does not have.
get_device_state_cache_merged(st, fx, d, resp) ==
  IF ~fx /\ get_device_state_ret(fx, d, resp).kind = "state"
    THEN cache_setitem(st, d,
           resp.payload.caps \o
             SelectSeq(st[d].caps,
                       LAMBDA c : \A i \in 1..Len(resp.payload.caps) :
                                    ~SameKey(c, resp.payload.caps[i])))
    ELSE st

\* get_device_state, the cache it leaves: written on the network path only.
get_device_state_cache(st, fx, d, resp) ==
  IF ~fx /\ get_device_state_ret(fx, d, resp).kind = "state"
    THEN cache_setitem(st, d, resp.payload.caps)
    ELSE st

\* The capability list with the first entry matching cmd given cmd's value.
replace_value(caps, cmd) ==
  LET i == get_capability(caps, cmd.type, cmd.instance)
  IN  IF i = 0 THEN caps
      ELSE IF cmd.type = "work_mode"
        THEN [caps EXCEPT ![i].value = cmd.value, ![i].modeValue = cmd.modeValue]
      ELSE [caps EXCEPT ![i].value = cmd.value]

\* A reconciliation that works on the entry read when the command was sent.
update_device_cache_stale(st, d, cmd) ==
  LET current == cache_getitem([st EXCEPT ![d] = control[d].seen], d)
  IN  IF ~current.present THEN st
      ELSE cache_setitem(st, d, replace_value(current.caps, cmd))

\* _update_device_cache.
update_device_cache(st, d, cmd) ==
  LET current == cache_getitem(st, d)
  IN  IF ~current.present THEN st
      ELSE cache_setitem(st, d, replace_value(current.caps, cmd))

\* async_control_device: what the compatibility wrapper reports.
async_control_device(ret) ==
  IF ret.kind = "raise" THEN "raise"
  ELSE IF ret.kind = "none" THEN "false"
  ELSE IF ret.cap # NoCommand /\ ret.status = "failure" THEN "error"
  ELSE IF ret.code = 200 THEN "true"
  ELSE "false"

\* GoveeDeviceApiClient.control_device: what the device client reports.
device_control_device(ret) ==
  IF ret.kind = "raise" THEN "raise"
  ELSE IF ret.kind = "resp" /\ ret.cap # NoCommand /\ ret.status = "failure"
    THEN "raise"
  ELSE IF ret.kind = "resp" /\ ret.code = 200 THEN "true"
  ELSE "false"

\* control_device, the DeviceControlResponse it returns.
control_device_resp(fx, cmd, resp) ==
  IF fx
    THEN [Ret("resp") EXCEPT !.code = 200, !.cap = cmd, !.status = "success"]
  ELSE IF post_kind(resp) # "json" THEN Ret("raise")
  ELSE [Ret("resp") EXCEPT
          !.code = 200,
          !.cap = IF resp.hasCap THEN cmd ELSE NoCommand,
          !.status = resp.status,
          !.errorCode = IF resp.status = "failure" THEN 123 ELSE 0,
          !.errorMsg = IF resp.status = "failure" THEN "busy" ELSE ""]

control_device_ret(fx, cmd, resp) ==
  LET r == control_device_resp(fx, cmd, resp)
  IN  [r EXCEPT !.compat = async_control_device(r),
                !.client = device_control_device(r)]

\* control_device, the cache it leaves: reconciled when the body's code is 200.
control_device_cache(st, fx, d, cmd, resp) ==
  LET r == control_device_resp(fx, cmd, resp)
  IN  IF ~fx /\ r.kind = "resp" /\ r.code = 200
        THEN update_device_cache(st, d, cmd)
        ELSE st


\* control_device, the state it hands to the cache (NoState: no write).
control_device_put(st, fx, d, cmd, resp) ==
  LET r == control_device_resp(fx, cmd, resp)
      current == cache_getitem(st, d)
  IN  IF ~fx /\ r.kind = "resp" /\ r.code = 200 /\ current.present
        THEN SomeState(replace_value(current.caps, cmd))
        ELSE NoState

\* get_device_state, the state it hands to the cache (NoState: no write).
get_device_state_put(fx, d, resp) ==
  IF ~fx /\ get_device_state_ret(fx, d, resp).kind = "state"
    THEN resp.payload
    ELSE NoState

\* get_devices: the GET is made whether or not the fixture is present.
get_devices_ret(resp) ==
  IF resp.http = 0 THEN Ret("raise")
  ELSE IF resp.http # 200 THEN Ret("none")
  ELSE Ret("devices")

\* ------------------------------------------------------- legacy utils.py
\* async_GoveeAPI_POSTRequest with return_status_code left False: the decoded
\* body of a 200 answer, None for everything else.
POSTRequest_ok(resp) == resp.http = 200

\* async_GoveeAPI_GetDeviceState, the returned bool.
legacy_get_device_state_ret(fx, d, resp) ==
  IF fx THEN Ret("true")
  ELSE IF POSTRequest_ok(resp) /\ resp.payload.present THEN Ret("true")
  ELSE Ret("false")

\* async_GoveeAPI_GetDeviceState, the cache it leaves: the raw record.
legacy_get_device_state_cache(st, fx, d, resp) ==
  IF fx THEN [st EXCEPT ![d] = SomeState(FixtureStates[d])]
  ELSE IF POSTRequest_ok(resp) /\ resp.payload.present
    THEN [st EXCEPT ![d] = resp.payload]
  ELSE st

\* The reply async_GoveeAPI_ControlDevice works on: synthesized with the
\* fixture, the vendor's otherwise.
legacy_control_reply(fx, resp) ==
  IF fx
    THEN [http |-> 200, payload |-> NoState, hasCap |-> TRUE, status |-> "success"]
    ELSE resp

\* A reconciliation that appends the new entry and keeps the old one.
append_only(caps, cmd) == Append(caps, cmd)

\* The cached list with the entry matching cmd removed and cmd's entry
\* appended (lines 302-308).
remove_append(caps, cmd) ==
  LET i == get_capability(caps, cmd.type, cmd.instance)
  IN  Append(SubSeq(caps, 1, i - 1) \o SubSeq(caps, i + 1, Len(caps)), cmd)

\* The command is reconciled: a usable reply, the device cached, a match.
legacy_reconciles(st, fx, d, cmd, resp) ==
  LET r == legacy_control_reply(fx, resp)
  IN  /\ POSTRequest_ok(r) /\ r.hasCap /\ r.status # "failure"
      /\ st[d].present
      /\ get_capability(st[d].caps, cmd.type, cmd.instance) # 0

\* async_GoveeAPI_ControlDevice, the returned value.
legacy_control_ret(st, fx, d, cmd, resp) ==
  LET r == legacy_control_reply(fx, resp)
  IN  IF POSTRequest_ok(r) /\ r.hasCap /\ r.status = "failure"
        THEN [Ret("error") EXCEPT !.errorCode = 123, !.errorMsg = "busy"]
      ELSE IF legacy_reconciles(st, fx, d, cmd, resp) THEN Ret("true")
      ELSE Ret("false")

\* async_GoveeAPI_ControlDevice, the cache it leaves.
legacy_control_cache(st, fx, d, cmd, resp) ==
  IF legacy_reconciles(st, fx, d, cmd, resp)
    THEN [st EXCEPT ![d] = SomeState(remove_append(st[d].caps, cmd))]
    ELSE st

\* async_GoveeAPI_GETRequest: the fixture's device list, or the vendor's.
legacy_get_ret(fx, resp) ==
  IF fx \/ resp.http = 200 THEN Ret("devices") ELSE Ret("none")

\* ------------------------------------------------------------ coordinator
\* CONF_PARAMS[CONF_SCAN_INTERVAL], the interval the coordinator starts with.
SetupInterval == 60

\* The interval a poll falls back to when the fixture is present and no
\* runtime interval is set.
DebugInterval == 3600

\* entry_data[CONF_SCAN_INTERVAL] = None.
NoInterval == 0

\* Values the set_poll_interval service is called with.
PollIntervals == {30, 60}

\* _async_update_data, lines 222-236: the interval after a poll that did not
\* raise.
derive_interval(current, scan, fx) ==
  LET wanted == IF fx /\ scan = NoInterval THEN DebugInterval ELSE scan
  IN  IF wanted # NoInterval /\ wanted # current THEN wanted ELSE current

\* _async_update_data without the try/except of lines 212-220: what
\* get_device_state raises reaches the host.
update_data_ret_propagates(ret) ==
  IF ret.kind = "raise" THEN Ret("raise")
  ELSE IF ret.kind = "status" /\ ret.code \in {429, 401} THEN Ret("auth_failed")
  ELSE Ret("none")

\* _async_update_data, what the host sees: False when get_device_state
\* raised (a timeout included), ConfigEntryAuthFailed when its result is the
\* integer 429 or 401, None otherwise.
update_data_ret(ret) ==
  IF ret.kind = "raise" THEN Ret("false")
  ELSE IF ret.kind = "status" /\ ret.code \in {429, 401} THEN Ret("auth_failed")
  ELSE Ret("none")

\* -------------------------------------------------------------- mode table
\* The entity classes that build a mode table from a work-mode descriptor:
\* GoveeLifeHumidifier, GoveeLifeFan and the WorkModeMixin.
Platforms == {"humidifier", "fan", "mixin"}

\* Option names of the descriptors: work modes, and the children of a gear
\* selector.
ModeNames == {"gearMode", "Auto", "Custom", "Sleep", "nightMode", "Low", "High"}

\* The options of the workMode field: name -> value.  "Sleep" and "nightMode"
\* are names the field does not declare.
WorkModeOptions ==
  << [name |-> "gearMode", value |-> 1],
     [name |-> "Custom", value |-> 2],
     [name |-> "Auto", value |-> 3] >>

\* The values the options of the workMode field declare.
DeclaredWorkModes == { WorkModeOptions[i].value : i \in 1..Len(WorkModeOptions) }

\* The value the workMode field declares for a name, NoValue for none.
Declared(n) ==
  IF \E i \in 1..Len(WorkModeOptions) : WorkModeOptions[i].name = n
    THEN WorkModeOptions[CHOOSE i \in 1..Len(WorkModeOptions) :
                           WorkModeOptions[i].name = n].value
    ELSE NoValue

\* One option of the modeValue field.  parent: the option carries an
\* "options" key, whose list is children.  value, defaultValue: NoValue when
\* the key is absent.  range: the option carries a "range" key; rangeMin is
\* NoValue when that range has no "min".
Option(n, par, v, dv, rng, mn, ch) ==
  [name |-> n, parent |-> par, value |-> v, defaultValue |-> dv,
   range |-> rng, rangeMin |-> mn, children |-> ch]

Child(n, v) == [name |-> n, value |-> v]

\* The shapes a standalone option comes in: which of value, defaultValue
\* and range it carries.
StandaloneOptions ==
  { Option("Auto", FALSE, v, dv, r[1], r[2], << >>) :
      v \in {NoValue, 7}, dv \in {NoValue, 5},
      r \in {<<FALSE, NoValue>>, <<TRUE, 3>>, <<TRUE, NoValue>>} }
  \cup { Option("Custom", FALSE, 7, NoValue, FALSE, NoValue, << >>),
         Option("Sleep", FALSE, 4, NoValue, FALSE, NoValue, << >>) }

ParentOptions ==
  { Option(n, TRUE, NoValue, NoValue, FALSE, NoValue, ch) :
      n \in {"gearMode", "nightMode"},
      ch \in { << Child("Low", 1) >>, << Child("Low", 1), Child("High", 2) >>,
               << Child("Custom", 3) >> } }

ModeValueOptions == StandaloneOptions \cup ParentOptions

RECURSIVE SeqsUpTo(_, _)
SeqsUpTo(S, n) ==
  IF n = 0 THEN { << >> }
  ELSE LET shorter == SeqsUpTo(S, n - 1)
       IN  shorter \cup { Append(q, x) : q \in shorter, x \in S }

\* A work-mode capability descriptor: its two fields in the order the vendor
\* lists them, and the options of the modeValue field.
Descriptors ==
  [workModeFirst : BOOLEAN, options : SeqsUpTo(ModeValueOptions, MaxOptions)]

\* The mappings of one entity class: _attr_preset_modes_mapping (name ->
\* workMode value), _attr_preset_modes_mapping_set (preset -> {workMode,
\* modeValue}) and the list of mode names (_attr_available_modes, for the fan
\* _attr_preset_modes).  raised: the build stopped on an exception.
NoEntry == [present |-> FALSE, workMode |-> NoValue, modeValue |-> NoValue]

NoTable ==
  [mapping |-> [n \in ModeNames |-> NoValue],
   mappingSet |-> [n \in ModeNames |-> NoEntry],
   modes |-> << >>,
   raised |-> FALSE]

\* What an entity handler was asked for: a preset name or a control value.
\* No control command of the device awaits its answer.  cmd is the command
\* sent last and seen the cached entry at the time it was sent (history).
NoControl == [sent |-> FALSE, legacy |-> FALSE, cmd |-> NoCommand, seen |-> NoState]

NoRequest == [op |-> "none", name |-> "none", value |-> NoValue]
Request(op, name, value) == [op |-> op, name |-> name, value |-> value]

NoRegistration ==
  [done |-> FALSE, desc |-> [workModeFirst |-> TRUE, options |-> << >>],
   others |-> 0]

\* _extract_mode_value with the two middle cases swapped.
extract_mode_value_range_first(opt) ==
  IF opt.value # NoValue THEN opt.value
  ELSE IF opt.range THEN (IF opt.rangeMin # NoValue THEN opt.rangeMin ELSE 0)
  ELSE IF opt.defaultValue # NoValue THEN opt.defaultValue
  ELSE 0

\* _extract_mode_value (humidifier.py and work_mode_mixin.py agree): the
\* "value" key, else "defaultValue", else range.get("min", 0), else 0.
extract_mode_value(opt) ==
  IF opt.value # NoValue THEN opt.value
  ELSE IF opt.defaultValue # NoValue THEN opt.defaultValue
  ELSE IF opt.range THEN (IF opt.rangeMin # NoValue THEN opt.rangeMin ELSE 0)
  ELSE 0

\* _process_work_mode_field: every option of the workMode field is entered
\* in the name -> value mapping.
process_work_mode_field(t) ==
  [t EXCEPT !.mapping = [n \in ModeNames |->
                           IF Declared(n) # NoValue THEN Declared(n) ELSE @[n]]]

\* The same for a device whose workMode field lists the options wm (names
\* distinct).
process_work_mode_field_of(t, wm) ==
  [t EXCEPT !.mapping =
     [n \in ModeNames |->
        IF \E i \in 1..Len(wm) : wm[i].name = n
          THEN wm[CHOOSE i \in 1..Len(wm) : wm[i].name = n].value
          ELSE @[n]]]

\* One preset is entered: the name is appended to the mode list first, then
\* the entry is built; looking the work mode up raises KeyError when the
\* mapping lacks the name `of`, and so does reading a value that is absent.
add_preset(t, n, of, mv) ==
  LET listed == [t EXCEPT !.modes = Append(@, n)]
  IN  IF t.mapping[of] = NoValue \/ mv = NoValue
        THEN [listed EXCEPT !.raised = TRUE]
        ELSE [listed EXCEPT !.mappingSet[n] =
                [present |-> TRUE, workMode |-> t.mapping[of], modeValue |-> mv]]

\* The children of a parent option, from the i-th on; an exception ends it.
RECURSIVE add_children(_, _, _)
add_children(t, opt, i) ==
  IF t.raised \/ i > Len(opt.children) THEN t
  ELSE add_children(add_preset(t, opt.children[i].name, opt.name,
                               opt.children[i].value), opt, i + 1)

\* GoveeLifeHumidifier: one option of the modeValue field (lines 120-156).
humidifier_option(t, opt) ==
  IF opt.parent THEN add_children(t, opt, 1)
  ELSE IF opt.name # "Custom"
    THEN add_preset(t, opt.name, opt.name, extract_mode_value(opt))
  ELSE t

\* GoveeLifeFan: one option of the modeValue field (lines 96-103).  The
\* parent is recognised by its name, and a standalone option's "value" key is
\* read directly.
fan_option(t, opt) ==
  IF opt.name = "gearMode" THEN add_children(t, opt, 1)
  ELSE IF opt.name # "Custom"
    THEN add_preset(t, opt.name, opt.name, opt.value)
  ELSE t

\* WorkModeMixin: one option of the modeValue field (lines 47-98).  A name
\* the mapping lacks is skipped with a warning.
mixin_option(t, opt) ==
  IF opt.parent
    THEN IF t.mapping[opt.name] = NoValue THEN t ELSE add_children(t, opt, 1)
  ELSE IF opt.name # "Custom"
    THEN IF t.mapping[opt.name] = NoValue THEN t
         ELSE add_preset(t, opt.name, opt.name, extract_mode_value(opt))
  ELSE t

platform_option(p, t, opt) ==
  IF p = "humidifier" THEN humidifier_option(t, opt)
  ELSE IF p = "fan" THEN fan_option(t, opt)
  ELSE mixin_option(t, opt)

\* _process_mode_value_field: the options in order, from the i-th on; an
\* exception ends the build.
RECURSIVE process_mode_value_field(_, _, _, _)
process_mode_value_field(p, t, opts, i) ==
  IF t.raised \/ i > Len(opts) THEN t
  ELSE process_mode_value_field(p, platform_option(p, t, opts[i]), opts, i + 1)

\* The work-mode capability of a descriptor processed on table t: its
\* fields in the listed order.
process_work_mode_capability(p, t, desc) ==
  IF desc.workModeFirst
    THEN process_mode_value_field(p, process_work_mode_field(t), desc.options, 1)
    ELSE LET after == process_mode_value_field(p, t, desc.options, 1)
         IN  IF after.raised THEN after ELSE process_work_mode_field(after)

\* The same for a device whose workMode field lists the options wm.
process_work_mode_capability_of(p, t, desc, wm) ==
  IF desc.workModeFirst
    THEN process_mode_value_field(p, process_work_mode_field_of(t, wm),
                                  desc.options, 1)
    ELSE LET after == process_mode_value_field(p, t, desc.options, 1)
         IN  IF after.raised THEN after ELSE process_work_mode_field_of(after, wm)

\* GoveeApiClient._ensure_session, reached from _request once the fixture
\* did not answer the call: the client keeps one session and creates it on
\* its first request.
ensure_session(cs, c, fx) == IF fx THEN cs ELSE [cs EXCEPT ![c] = TRUE]

\* The sessions _ensure_session creates in that call.
opened(cs, c, fx) == IF fx \/ cs[c] THEN 0 ELSE 1

\* ---------------------------------------------------------------- actions
Called(n) == [callsMade EXCEPT ![today] = callsMade[today] + n]

Init ==
  /\ states = [d \in Devices |-> NoState]
  /\ apiCount = NoCount
  /\ today = 1
  /\ callsMade = [d \in Days |-> 0]
  /\ fixture \in BOOLEAN
  /\ scanInterval = 0
  /\ updateInterval = [d \in Devices |-> SetupInterval]
  /\ clientSession = [c \in Clients |-> FALSE]
  /\ sessions = 0
  /\ inFlight = [d \in Devices |-> FALSE]
  /\ control = [d \in Devices |-> NoControl]
  /\ loaded = TRUE
  /\ platform = "none"
  /\ table = NoTable
  /\ reg = NoRegistration
  /\ lastMode = [d \in Devices |-> "none"]
  /\ lastHumidityByMode = [n \in ModeNames |-> NoValue]
  /\ humidityOf = [d \in Devices |-> [n \in ModeNames |-> NoValue]]
  /\ request = NoRequest
  /\ last = Record("init", "d1", NoCommand, NoResponse, NoRet, 0, NoState)

\* GoveeApiClient.get_device_state(device), called through the client an
\* entity caches (GoveeDeviceApiClient.update_state).
GetDeviceState(d, resp) ==
  /\ fixture \/ MayCall
  /\ LET r == IF fixture THEN NoResponse ELSE resp
         n == IF fixture THEN 0 ELSE 1
     IN  /\ states' = get_device_state_cache(states, fixture, d, r)
         /\ apiCount' = IF fixture THEN apiCount ELSE request_count(apiCount, today)
         /\ callsMade' = Called(n)
         /\ last' = Record("get_device_state", d, NoCommand, r,
                           get_device_state_ret(fixture, d, r), n,
                           get_device_state_put(fixture, d, r))
  /\ clientSession' = ensure_session(clientSession, "entity", fixture)
  /\ sessions' = sessions + opened(clientSession, "entity", fixture)
  /\ UNCHANGED pollVars
  /\ UNCHANGED << today, fixture, scanInterval, updateInterval >>

\* GoveeApiClient.control_device(device, capability) and its two wrappers.
ControlDevice(d, cmd, resp) ==
  /\ fixture \/ MayCall
  /\ LET r == IF fixture THEN NoResponse ELSE resp
         n == IF fixture THEN 0 ELSE 1
     IN  /\ states' = control_device_cache(states, fixture, d, cmd, r)
         /\ apiCount' = IF fixture THEN apiCount ELSE request_count(apiCount, today)
         /\ callsMade' = Called(n)
         /\ last' = Record("control_device", d, cmd, r,
                           control_device_ret(fixture, cmd, r), n,
                           control_device_put(states, fixture, d, cmd, r))
  /\ clientSession' = ensure_session(clientSession, "entity", fixture)
  /\ sessions' = sessions + opened(clientSession, "entity", fixture)
  /\ UNCHANGED pollVars
  /\ UNCHANGED << today, fixture, scanInterval, updateInterval >>

\* GoveeApiClient.get_devices().
GetDevices(resp) ==
  /\ MayCall
  /\ apiCount' = request_count(apiCount, today)
  /\ callsMade' = Called(1)
  /\ last' = Record("get_devices", "d1", NoCommand, resp, get_devices_ret(resp),
                    1, NoState)
  /\ clientSession' = ensure_session(clientSession, "setup", FALSE)
  /\ sessions' = sessions + opened(clientSession, "setup", FALSE)
  /\ UNCHANGED pollVars
  /\ UNCHANGED << states, today, fixture, scanInterval, updateInterval >>

\* utils.async_GoveeAPI_GetDeviceState(hass, entry_id, device_cfg).
LegacyGetDeviceState(d, resp) ==
  /\ fixture \/ MayCall
  /\ LET r == IF fixture THEN NoResponse ELSE resp
         n == IF fixture THEN 0 ELSE 1
     IN  /\ states' = legacy_get_device_state_cache(states, fixture, d, r)
         /\ apiCount' = IF fixture THEN apiCount
                        ELSE async_GooveAPI_CountRequests(apiCount, today)
         /\ callsMade' = Called(n)
         /\ last' = Record("legacy_get_device_state", d, NoCommand, r,
                           legacy_get_device_state_ret(fixture, d, r), n, NoState)
  /\ UNCHANGED sessionVars
  /\ UNCHANGED pollVars
  /\ UNCHANGED << today, fixture, scanInterval, updateInterval >>

\* utils.async_GoveeAPI_ControlDevice(hass, entry_id, device_cfg, capability).
LegacyControlDevice(d, cmd, resp) ==
  /\ fixture \/ MayCall
  /\ LET r == IF fixture THEN NoResponse ELSE resp
         n == IF fixture THEN 0 ELSE 1
     IN  /\ states' = legacy_control_cache(states, fixture, d, cmd, r)
         /\ apiCount' = IF fixture THEN apiCount
                        ELSE async_GooveAPI_CountRequests(apiCount, today)
         /\ callsMade' = Called(n)
         /\ last' = Record("legacy_control_device", d, cmd, r,
                           legacy_control_ret(states, fixture, d, cmd, r), n, NoState)
  /\ UNCHANGED sessionVars
  /\ UNCHANGED pollVars
  /\ UNCHANGED << today, fixture, scanInterval, updateInterval >>

\* utils.async_GoveeAPI_GETRequest(hass, entry_id, "user/devices").
LegacyGETRequest(resp) ==
  /\ fixture \/ MayCall
  /\ LET r == IF fixture THEN NoResponse ELSE resp
         n == IF fixture THEN 0 ELSE 1
     IN  /\ apiCount' = IF fixture THEN apiCount
                        ELSE async_GooveAPI_CountRequests(apiCount, today)
         /\ callsMade' = Called(n)
         /\ last' = Record("legacy_get_devices", "d1", NoCommand, r,
                           legacy_get_ret(fixture, r), n, NoState)
  /\ UNCHANGED sessionVars
  /\ UNCHANGED pollVars
  /\ UNCHANGED << states, today, fixture, scanInterval, updateInterval >>

\* GoveeAPIUpdateCoordinator._async_update_data for device d: one poll.
CoordinatorUpdate(d, resp) ==
  /\ fixture \/ MayCall
  /\ LET r == IF fixture THEN NoResponse ELSE resp
         n == IF fixture THEN 0 ELSE 1
         result == get_device_state_ret(fixture, d, r)
     IN  /\ states' = get_device_state_cache(states, fixture, d, r)
         /\ apiCount' = IF fixture THEN apiCount ELSE request_count(apiCount, today)
         /\ callsMade' = Called(n)
         /\ updateInterval' =
              IF result.kind = "raise" THEN updateInterval
              ELSE [updateInterval EXCEPT
                      ![d] = derive_interval(updateInterval[d], scanInterval, fixture)]
         /\ last' = Record("coordinator_update", d, NoCommand, r,
                           update_data_ret(result), n,
                           get_device_state_put(fixture, d, r))
  /\ clientSession' = clientSession
  /\ sessions' = IF fixture THEN sessions ELSE sessions + 1
  /\ UNCHANGED pollVars
  /\ UNCHANGED << today, fixture, scanInterval >>

\* services.async_service_SetPollInterval as the module defines it.  Line 32
\* applies log_errors without its parentheses: the coroutine function is
\* bound to return_value and the name is left holding log_errors' inner
\* `decorator`, which takes one argument.  Called by the host as
\* (hass, call) it raises TypeError before lines 35-58 run, so the value of
\* entry_data[CONF_SCAN_INTERVAL] after the call is the one before it.
async_service_SetPollInterval(scan, v) == scan

\* A call of the set_poll_interval service with both parameters given.
SetPollInterval(v) ==
  /\ scanInterval' = async_service_SetPollInterval(scanInterval, v)
  /\ last' = Record("set_poll_interval", "d1", NoCommand, NoResponse, NoRet, 0, NoState)
  /\ request' = Request("set_poll_interval", "none", v)
  /\ UNCHANGED sessionVars
  /\ UNCHANGED modeVars
  /\ UNCHANGED << inFlight, control, loaded, lastMode, lastHumidityByMode, humidityOf >>
  /\ UNCHANGED << states, apiCount, today, callsMade, fixture, updateInterval >>

\* The calendar date advances.
NextDay ==
  /\ today < MaxDay
  /\ today' = today + 1
  /\ last' = Record("next_day", "d1", NoCommand, NoResponse, NoRet, 0, NoState)
  /\ UNCHANGED sessionVars
  /\ UNCHANGED pollVars
  /\ UNCHANGED << states, apiCount, callsMade, fixture, scanInterval, updateInterval >>

\* The operator places or removes the fixture file.
ToggleFixture ==
  /\ fixture' = ~fixture
  /\ last' = Record("toggle_fixture", "d1", NoCommand, NoResponse, NoRet, 0, NoState)
  /\ UNCHANGED sessionVars
  /\ UNCHANGED pollVars
  /\ UNCHANGED << states, apiCount, today, callsMade, scanInterval, updateInterval >>

\* _async_update_data for device d up to its await of the vendor's answer:
\* a new GoveeApiClient (line 214), whose _request counts the call, creates
\* the client's session and sends the POST.  The host's DataUpdateCoordinator
\* arms the device's timer again only when a refresh has finished.
PollStart(d) ==
  /\ loaded /\ ~fixture /\ ~inFlight[d] /\ MayCall
  /\ apiCount' = request_count(apiCount, today)
  /\ callsMade' = Called(1)
  /\ sessions' = sessions + 1
  /\ inFlight' = [inFlight EXCEPT ![d] = TRUE]
  /\ UNCHANGED control
  /\ last' = Record("poll_start", d, NoCommand, NoResponse, NoRet, 1, NoState)
  /\ UNCHANGED modeVars
  /\ UNCHANGED entityVars
  /\ UNCHANGED << states, today, fixture, scanInterval, updateInterval,
                  clientSession, loaded >>

\* What get_device_state hands the coordinator once the answer is in: the
\* cache write reads hass.data[DOMAIN][entry_id], which raises KeyError when
\* the entry was unloaded meanwhile.
poll_result(ld, d, resp) ==
  LET r == get_device_state_ret(FALSE, d, resp)
  IN  IF ~ld /\ r.kind = "state" THEN Ret("raise") ELSE r

\* _async_update_data for device d from the vendor's answer to its return:
\* the cache write, then lines 222-236 on the interval, then the return.
PollFinish(d, resp) ==
  /\ inFlight[d]
  /\ LET result == poll_result(loaded, d, resp)
     IN  /\ states' = IF loaded THEN get_device_state_cache(states, FALSE, d, resp)
                       ELSE states
         /\ updateInterval' =
              IF result.kind = "raise" THEN updateInterval
              ELSE [updateInterval EXCEPT
                      ![d] = derive_interval(updateInterval[d], scanInterval, fixture)]
         /\ last' = Record("coordinator_update", d, NoCommand, resp,
                           update_data_ret(result), 0,
                           IF loaded THEN get_device_state_put(FALSE, d, resp)
                           ELSE NoState)
  /\ inFlight' = [inFlight EXCEPT ![d] = FALSE]
  /\ UNCHANGED control
  /\ UNCHANGED sessionVars
  /\ UNCHANGED modeVars
  /\ UNCHANGED entityVars
  /\ UNCHANGED << apiCount, today, callsMade, fixture, scanInterval, loaded >>

\* _async_update_data for device d with the fixture present: no await, the
\* poll runs to its end in one step.
PollFixture(d) ==
  /\ loaded /\ fixture /\ ~inFlight[d]
  /\ CoordinatorUpdate(d, NoResponse)

\* async_unload_entry with every platform unloaded: the entry's store is
\* popped from hass.data (line 144).  No client's close() is called.
Unload ==
  /\ loaded
  /\ loaded' = FALSE
  /\ last' = Record("unload", "d1", NoCommand, NoResponse, NoRet, 0, NoState)
  /\ UNCHANGED sessionVars
  /\ UNCHANGED modeVars
  /\ UNCHANGED entityVars
  /\ UNCHANGED << states, apiCount, today, callsMade, fixture, scanInterval,
                  updateInterval, inFlight, control >>

\* The platforms async_unload_entry forwards the unload to, in order: the
\* platform modules of the package.
SupportedPlatforms ==
  << "climate", "fan", "humidifier", "light", "sensor", "switch" >>

\* What async_forward_entry_unload does for one platform: it returns a true
\* value, returns a false one, or raises.
UnloadResults == {"ok", "failed", "raise"}

UnloadVectors == [1..Len(SupportedPlatforms) -> UnloadResults]

\* Lines 121-123, one platform: all_ok takes the platform's result when
\* that result is false.
all_ok_step_last(all_ok, platform_ok) == platform_ok

all_ok_step(all_ok, platform_ok) ==
  IF ~platform_ok THEN platform_ok ELSE all_ok

\* The loop of lines 117-123 from platform i on: "raise" when a platform's
\* unload raises, else all_ok as the loop leaves it.
RECURSIVE unload_platforms(_, _, _)
unload_platforms(results, i, all_ok) ==
  IF i > Len(results) THEN (IF all_ok THEN "true" ELSE "false")
  ELSE IF results[i] = "raise" THEN "raise"
  ELSE unload_platforms(results, i + 1, all_ok_step(all_ok, results[i] = "ok"))

\* async_unload_entry (lines 109-149) for a set-up entry: when all_ok the
\* option listener's unsubscribe function is called (line 140) and the
\* entry's store is popped (line 144); an exception returns False (lines
\* 147-149).  last.results keeps what the platforms did, last.unsubscribed
\* whether the listener was unsubscribed.
UnloadEntry(results) ==
  LET out == unload_platforms(results, 1, TRUE)
      all_ok == out = "true"
  IN  /\ loaded
      /\ loaded' = ~all_ok
      /\ last' = Record("unload_entry", "d1", NoCommand, NoResponse,
                        Ret(IF all_ok THEN "true" ELSE "false"), 0, NoState)
                   @@ [results |-> results, unsubscribed |-> all_ok]
      /\ UNCHANGED sessionVars
      /\ UNCHANGED modeVars
      /\ UNCHANGED entityVars
      /\ UNCHANGED << states, apiCount, today, callsMade, fixture,
                      scanInterval, updateInterval, inFlight, control >>

\* An entity of class p is constructed for a device whose work-mode
\* capability is desc: _init_platform_specific builds the class's mode
\* table; GoveeLifePlatformEntity.__init__ (lines 93-95) swallows what it
\* raises.  The first entity of its class finds the mappings empty.
Register(p, desc) ==
  /\ ~reg.done
  /\ platform' = p
  /\ table' = process_work_mode_capability(p, table, desc)
  /\ reg' = [done |-> TRUE, desc |-> desc, others |-> 0]
  /\ UNCHANGED entityVars
  /\ last' = Record("register", "d1", NoCommand, NoResponse, NoRet, 0, NoState)
  /\ UNCHANGED sessionVars
  /\ UNCHANGED << states, apiCount, today, callsMade, fixture, scanInterval,
                  updateInterval, inFlight, control, loaded >>

\* The answers to device/state that the API-level operations tell apart.
ApiStateResponses(d) == { r \in StateResponses(d) : r.http \in {200, 429, 0} }

\* The API-level operations on the entry store, as the platforms and the
\* setup code call them.
Next ==
  \/ \E d \in Devices : \E resp \in ApiStateResponses(d) : GetDeviceState(d, resp)
  \/ \E d \in Devices, cmd \in Commands, resp \in ControlResponses :
       ControlDevice(d, cmd, resp)
  \/ \E d \in Devices : \E resp \in ApiStateResponses(d) :
       LegacyGetDeviceState(d, resp)
  \/ \E d \in Devices, cmd \in Commands, resp \in ControlResponses :
       LegacyControlDevice(d, cmd, resp)
  \/ ToggleFixture

Spec == Init /\ [][Next]_vars

\* The outbound calls and the calendar: device listing through both clients.
NextCount ==
  \/ \E resp \in ListResponses : GetDevices(resp)
  \/ \E resp \in ListResponses : LegacyGETRequest(resp)
  \/ \E d \in Devices : \E resp \in ApiStateResponses(d) : GetDeviceState(d, resp)
  \/ NextDay
  \/ ToggleFixture

SpecCount == Init /\ [][NextCount]_vars

\* The per-device polling loops and the runtime poll interval.
NextCoord ==
  \/ \E d \in Devices : \E resp \in StateResponses(d) : CoordinatorUpdate(d, resp)
  \/ \E v \in PollIntervals : SetPollInterval(v)
  \/ ToggleFixture

SpecCoord == Init /\ [][NextCoord]_vars

\* The polling loops with their polls in flight, the poll interval service
\* and the unloading of the entry.
NextPoll ==
  \/ \E d \in Devices : PollStart(d)
  \/ \E d \in Devices : \E resp \in StateResponses(d) : PollFinish(d, resp)
  \/ \E d \in Devices : PollFixture(d)
  \/ \E v \in PollIntervals : SetPollInterval(v)
  \/ ToggleFixture
  \/ Unload

SpecPoll == Init /\ [][NextPoll]_vars

\* Device registration: the mode table of the first entity of a class.
NextModes ==
  /\ ~reg.done
  /\ \E p \in Platforms, desc \in Descriptors : Register(p, desc)

SpecModes == Init /\ [][NextModes]_vars

\* The descriptors of the devices registered after the first: a gear
\* selector with one child, the same with two children and Auto, and the
\* modeValue field listed before the workMode field.
OtherDescriptors ==
  { [workModeFirst |-> TRUE,
     options |-> << Option("gearMode", TRUE, NoValue, NoValue, FALSE, NoValue,
                           << Child("Low", 2) >>) >>],
    [workModeFirst |-> TRUE,
     options |-> << Option("gearMode", TRUE, NoValue, NoValue, FALSE, NoValue,
                           << Child("Low", 1), Child("High", 2) >>),
                    Option("Auto", FALSE, 7, NoValue, FALSE, NoValue, << >>) >>],
    [workModeFirst |-> FALSE,
     options |-> << Option("Auto", FALSE, 5, NoValue, FALSE, NoValue, << >>) >>] }

\* A further entity of the class is constructed, for another device with
\* descriptor desc.  GoveeLifeHumidifier and GoveeLifeFan keep the mappings
\* and the mode list in class attributes (humidifier.py:48-50, fan.py:67-69)
\* that no __init__ rebinds, so the build writes into the dictionaries the
\* first entity reads; WorkModeMixin.init_work_mode_mappings gives every
\* instance dictionaries of its own.  raised stays the first build's.
register_another(p, t, desc, wm) ==
  IF p = "mixin" THEN t
  ELSE [process_work_mode_capability_of(p, [t EXCEPT !.raised = FALSE], desc, wm)
          EXCEPT !.raised = t.raised]

\* The workMode field of a device of another model: gearMode has another
\* value there.
OtherWorkModeOptions ==
  << [name |-> "gearMode", value |-> 5],
     [name |-> "Auto", value |-> 3] >>

RegisterAnother(desc, wm) ==
  /\ reg.done /\ reg.others < Cardinality(Devices) - 1
  /\ table' = register_another(platform, table, desc, wm)
  /\ reg' = [reg EXCEPT !.others = @ + 1]
  /\ last' = Record("register_another", "d2", NoCommand, NoResponse, NoRet, 0,
                    NoState)
  /\ UNCHANGED sessionVars
  /\ UNCHANGED entityVars
  /\ UNCHANGED << states, apiCount, today, callsMade, fixture, scanInterval,
                  updateInterval, inFlight, control, loaded, platform >>

\* Registration of the devices of one class, one after the other.
NextShared ==
  \/ /\ ~reg.done
     /\ \E p \in Platforms, desc \in Descriptors : Register(p, desc)
  \/ /\ reg.done
     /\ \E desc \in OtherDescriptors,
           wm \in {WorkModeOptions, OtherWorkModeOptions} :
          RegisterAnother(desc, wm)

SpecShared == Init /\ [][NextShared]_vars

\* ----------------------------------------------------------- cache readers
\* The entries of the lists the readers are tried on: powerSwitch off and on
\* and humidity 0, so that a list may hold a pair more than once.
ReadEntries ==
  { c \in Caps : \/ c.type = "on_off" /\ c.value \in {0, 1}
                 \/ c.type = "range" /\ c.value = 0 }

\* Answers to device/state whose capability list is any list of those
\* entries, duplicates of a (type, instance) included.
ReadResponses ==
  { [http |-> 200, payload |-> SomeState(p), hasCap |-> FALSE, status |-> ""] :
      p \in SeqsUpTo(ReadEntries, MaxEntries) \ { << >> } }

ReadKeys == { k \in CapKeys : k.type \in CapabilityType }

\* GoveeApiClient.get_cached_state_value(device_id, cap_type, instance).
GetCachedStateValue(d, k) ==
  /\ last' = Record("get_cached_state_value", d,
                    [type |-> k.type, instance |-> k.instance,
                     value |-> get_capability_value(states, d, k.type, k.instance)],
                    NoResponse, NoRet, 0, NoState)
  /\ UNCHANGED sessionVars
  /\ UNCHANGED pollVars
  /\ UNCHANGED << states, apiCount, today, callsMade, fixture, scanInterval,
                  updateInterval >>

\* utils.GoveeAPI_GetCachedStateValue(hass, entry_id, device_id, type,
\* instance).
LegacyGetCachedStateValue(d, k) ==
  /\ last' = Record("legacy_get_cached_state_value", d,
                    [type |-> k.type, instance |-> k.instance,
                     value |-> GoveeAPI_GetCachedStateValue(states, d, k.type,
                                                            k.instance)],
                    NoResponse, NoRet, 0, NoState)
  /\ UNCHANGED sessionVars
  /\ UNCHANGED pollVars
  /\ UNCHANGED << states, apiCount, today, callsMade, fixture, scanInterval,
                  updateInterval >>

\* The states put directly: every list without duplicates of the entries
\* with value 0, the empty list included.
PutStates ==
  LET zero == { c \in ReadEntries : c.value = 0 }
  IN  { s \in SeqsUpTo(zero, Cardinality(zero)) : NoDuplicates(s) }

\* GoveeStateCache.__setitem__(device_id, state) with a validated state;
\* last.before keeps the entry the put replaces.
CachePut(d, s) ==
  /\ states' = cache_setitem(states, d, s)
  /\ last' = Record("cache_setitem", d, NoCommand, NoResponse, NoRet, 0,
                    SomeState(s)) @@ [before |-> states[d]]
  /\ UNCHANGED sessionVars
  /\ UNCHANGED pollVars
  /\ UNCHANGED << apiCount, today, callsMade, fixture, scanInterval,
                  updateInterval >>

\* The readers on capability lists of every shape, stored by either fetch.
NextRead ==
  \/ \E s \in PutStates : CachePut("d1", s)
  \/ \E resp \in ReadResponses : GetDeviceState("d1", resp)
  \/ \E resp \in ReadResponses : LegacyGetDeviceState("d1", resp)
  \/ \E k \in ReadKeys : GetCachedStateValue("d1", k)
  \/ \E k \in ReadKeys : LegacyGetCachedStateValue("d1", k)

SpecRead == Init /\ [][NextRead]_vars

\* ------------------------------------------- control and poll, interleaved
\* control_device (legacy: async_GoveeAPI_ControlDevice) of device d up to
\* its await of the vendor's answer: the call is counted and sent.  With the
\* fixture there is no await.  One command per device awaits at a time.
ControlStart(d, cmd, legacy) ==
  /\ loaded /\ ~fixture /\ ~control[d].sent /\ MayCall
  /\ apiCount' = IF legacy THEN async_GooveAPI_CountRequests(apiCount, today)
                 ELSE request_count(apiCount, today)
  /\ callsMade' = Called(1)
  /\ clientSession' = IF legacy THEN clientSession
                      ELSE ensure_session(clientSession, "entity", FALSE)
  /\ sessions' = IF legacy THEN sessions
                 ELSE sessions + opened(clientSession, "entity", FALSE)
  /\ control' = [control EXCEPT
                   ![d] = [sent |-> TRUE, legacy |-> legacy, cmd |-> cmd,
                           seen |-> states[d]]]
  /\ last' = Record("control_start", d, cmd, NoResponse, NoRet, 1, NoState)
  /\ UNCHANGED modeVars
  /\ UNCHANGED entityVars
  /\ UNCHANGED << states, today, fixture, scanInterval, updateInterval,
                  inFlight, loaded >>

\* The same call from the vendor's answer to its return: the reply is
\* examined and the cache reconciled without a further await (api.py
\* lines 180-194 with _update_device_cache, utils.py lines 276-311).
ControlFinish(d, resp) ==
  /\ control[d].sent
  /\ LET cmd == control[d].cmd
     IN  IF control[d].legacy
           THEN /\ states' = legacy_control_cache(states, FALSE, d, cmd, resp)
                /\ last' = Record("legacy_control_device", d, cmd, resp,
                                  legacy_control_ret(states, FALSE, d, cmd, resp),
                                  0, NoState)
           ELSE /\ states' = control_device_cache(states, FALSE, d, cmd, resp)
                /\ last' = Record("control_device", d, cmd, resp,
                                  control_device_ret(FALSE, cmd, resp), 0,
                                  control_device_put(states, FALSE, d, cmd, resp))
  /\ control' = [control EXCEPT ![d].sent = FALSE]
  /\ UNCHANGED sessionVars
  /\ UNCHANGED modeVars
  /\ UNCHANGED entityVars
  /\ UNCHANGED << apiCount, today, callsMade, fixture, scanInterval,
                  updateInterval, inFlight, loaded >>

\* One device's poll loop and the control commands of its entities, each
\* split at its await; an earlier fetch has cached a state of the device.
NextRace ==
  \/ /\ ~states["d1"].present
     /\ \E s \in Payloads("d1") : CachePut("d1", s)
  \/ PollStart("d1")
  \/ \E resp \in StateResponses("d1") : PollFinish("d1", resp)
  \/ \E cmd \in Commands, legacy \in BOOLEAN : ControlStart("d1", cmd, legacy)
  \/ \E resp \in ControlResponses : ControlFinish("d1", resp)

SpecRace == Init /\ [][NextRace]_vars

\* -------------------------------------------------------- entity handlers
EntityOps == {"set_mode", "set_humidity", "set_preset_mode", "light_turn_on"}

\* Values a caller asks for: the declared ones and one above the maximum.
Requested == 0..(MaxValue + 1)

\* parameters.range of the range and colour-temperature capabilities the
\* devices declare: the values the vendor reports.
DeclaredRange == [min |-> 0, max |-> MaxValue]

InRange(v) == DeclaredRange.min <= v /\ v <= DeclaredRange.max

\* The devices whose record in the device list declares the humidity range
\* capability: every device a humidifier entity is built for.
HumidityDevices == Devices

\* _has_humidity_control: the device declared a humidity range, so that
\* _process_humidity_range_capability set _attr_min/_max_humidity.
has_humidity_control(d) == d \in HumidityDevices

\* _is_humidity_value.
is_humidity_value(d, v) == has_humidity_control(d) /\ InRange(v)

\* The work_mode command of a preset's settings: value = {workMode, modeValue}.
WorkModeCommand(e) ==
  [type |-> "work_mode", instance |-> "workMode", value |-> e.workMode,
   modeValue |-> e.modeValue]

RangeCommand(instance, v) == [type |-> "range", instance |-> instance, value |-> v]

\* The first preset, in the order the names were entered, whose settings
\* are {workMode: w, modeValue: m}; "none" if there is none.
lookup_preset(t, w, m) ==
  LET hits == { k \in 1..Len(t.modes) :
                  /\ t.mappingSet[t.modes[k]].present
                  /\ t.mappingSet[t.modes[k]].workMode = w
                  /\ t.mappingSet[t.modes[k]].modeValue = m }
  IN  IF hits = {} THEN "none"
      ELSE t.modes[CHOOSE k \in hits : \A j \in hits : k <= j]

\* GoveeLifeHumidifier.preset_mode: the preset found for the cached work-mode
\* value when that carries both keys; "none" (None) otherwise.
preset_mode(st, d, t) ==
  LET c == cache_getitem(st, d)
      i == IF c.present THEN get_capability(c.caps, "work_mode", "workMode") ELSE 0
  IN  IF i = 0 THEN "none"
      ELSE IF c.caps[i].value = NoValue \/ c.caps[i].modeValue = NoValue THEN "none"
      ELSE lookup_preset(t, c.caps[i].value, c.caps[i].modeValue)

\* GoveeLifeFan.preset_mode: GoveeAPI_GetCachedStateValue keeps the last
\* match; subscripting its None raises TypeError ("raise"); a pair no preset
\* has reads STATE_UNKNOWN ("unknown").
fan_preset_mode(st, d, t) ==
  LET caps == st[d].caps
      hits == IF st[d].present
                THEN { i \in 1..Len(caps) :
                         caps[i].type = "work_mode" /\ caps[i].instance = "workMode" }
                ELSE {}
      i == IF hits = {} THEN 0 ELSE CHOOSE k \in hits : \A j \in hits : j <= k
  IN  IF i = 0 THEN "raise"
      ELSE IF lookup_preset(t, caps[i].value, caps[i].modeValue) = "none"
        THEN "unknown"
      ELSE lookup_preset(t, caps[i].value, caps[i].modeValue)

\* The counter after n counted calls on one date.
count_calls(ac, day, n) ==
  IF n = 0 THEN ac
  ELSE IF n = 1 THEN request_count(ac, day)
  ELSE request_count(request_count(ac, day), day)

legacy_count_calls(ac, day, n) ==
  IF n = 0 THEN ac
  ELSE IF n = 1 THEN async_GooveAPI_CountRequests(ac, day)
  ELSE async_GooveAPI_CountRequests(async_GooveAPI_CountRequests(ac, day), day)

\* async_set_mode accepts the name: it is a key of the preset mapping and its
\* work mode is a value of the work-mode mapping (lines 326-343; the check of
\* lines 347-352 cannot fail, _is_humidity_value implies _has_humidity_control).
set_mode_accepts(t, mode) ==
  /\ t.mappingSet[mode].present
  /\ \E n \in ModeNames :
       t.mapping[n] # NoValue /\ t.mapping[n] = t.mappingSet[mode].workMode

\* GoveeLifeHumidifier.async_set_mode(mode) of device d's entity.
HumidifierSetMode(d, mode, resp, resp2) ==
  /\ reg.done /\ platform = "humidifier"
  /\ LET e == table.mappingSet[mode]
         valid == set_mode_accepts(table, mode)
         cmd == WorkModeCommand(e)
         r == IF fixture THEN NoResponse ELSE resp
         r2 == IF fixture THEN NoResponse ELSE resp2
         ret == control_device_ret(fixture, cmd, r)
         st1 == control_device_cache(states, fixture, d, cmd, r)
         restore == /\ valid /\ ret.client = "true"
                    /\ e.modeValue # NoValue /\ is_humidity_value(d, e.modeValue)
                    /\ lastHumidityByMode[mode] # NoValue
                    /\ lastHumidityByMode[mode] # e.modeValue
         cmd2 == RangeCommand("humidity", lastHumidityByMode[mode])
         n == IF ~valid \/ fixture THEN 0 ELSE IF restore THEN 2 ELSE 1
     IN  /\ CallsTotal + n <= MaxCalls
         /\ states' = IF ~valid THEN states
                      ELSE IF restore
                        THEN control_device_cache(st1, fixture, d, cmd2, r2)
                      ELSE st1
         /\ apiCount' = count_calls(apiCount, today, n)
         /\ callsMade' = Called(n)
         /\ lastMode' = IF valid /\ ret.client = "true"
                          THEN [lastMode EXCEPT ![d] = mode] ELSE lastMode
         /\ clientSession' = IF valid
                               THEN ensure_session(clientSession, "entity", fixture)
                               ELSE clientSession
         /\ sessions' = IF valid
                          THEN sessions + opened(clientSession, "entity", fixture)
                          ELSE sessions
         /\ last' = IF valid
                      THEN Record("set_mode", d, cmd, r, ret, n,
                                  control_device_put(states, fixture, d, cmd, r))
                             @@ [restored |-> IF restore THEN cmd2.value
                                              ELSE NoValue]
                      ELSE Record("set_mode", d, NoCommand, NoResponse,
                                  Ret("raise"), 0, NoState)
                             @@ [restored |-> NoValue]
  /\ request' = Request("set_mode", mode, NoValue)
  /\ UNCHANGED modeVars
  /\ UNCHANGED << today, fixture, scanInterval, updateInterval, inFlight, control, loaded,
                  lastHumidityByMode, humidityOf >>

\* GoveeLifeHumidifier.async_set_humidity(humidity) of device d's entity.
HumidifierSetHumidity(d, h, resp) ==
  /\ reg.done /\ platform = "humidifier"
  /\ LET valid == has_humidity_control(d) /\ is_humidity_value(d, h)
         cmd == RangeCommand("humidity", h)
         r == IF fixture THEN NoResponse ELSE resp
         ret == control_device_ret(fixture, cmd, r)
         st1 == control_device_cache(states, fixture, d, cmd, r)
         current_mode == preset_mode(st1, d, table)
         n == IF ~valid \/ fixture THEN 0 ELSE 1
     IN  /\ CallsTotal + n <= MaxCalls
         /\ states' = IF valid THEN st1 ELSE states
         /\ apiCount' = count_calls(apiCount, today, n)
         /\ callsMade' = Called(n)
         /\ lastHumidityByMode' =
              IF valid /\ ret.client = "true" /\ current_mode # "none"
                THEN [lastHumidityByMode EXCEPT ![current_mode] = h]
                ELSE lastHumidityByMode
         /\ humidityOf' =
              IF valid /\ ret.client = "true" /\ current_mode # "none"
                THEN [humidityOf EXCEPT ![d][current_mode] = h]
                ELSE humidityOf
         /\ clientSession' = IF valid
                               THEN ensure_session(clientSession, "entity", fixture)
                               ELSE clientSession
         /\ sessions' = IF valid
                          THEN sessions + opened(clientSession, "entity", fixture)
                          ELSE sessions
         /\ last' = IF valid
                      THEN Record("set_humidity", d, cmd, r, ret, n,
                                  control_device_put(states, fixture, d, cmd, r))
                    ELSE IF has_humidity_control(d)
                      THEN Record("set_humidity", d, NoCommand, NoResponse,
                                  Ret("raise"), 0, NoState)
                    ELSE Record("set_humidity", d, NoCommand, NoResponse,
                                Ret("none"), 0, NoState)
  /\ request' = Request("set_humidity", "none", h)
  /\ UNCHANGED modeVars
  /\ UNCHANGED << today, fixture, scanInterval, updateInterval, inFlight, control, loaded,
                  lastMode >>

\* GoveeLifeFan.async_set_preset_mode(preset_mode) of device d's entity: the
\* subscript of line 172 raises KeyError for a name the mapping lacks.
FanSetPresetMode(d, name, resp) ==
  /\ reg.done /\ platform = "fan"
  /\ LET e == table.mappingSet[name]
         valid == e.present
         cmd == WorkModeCommand(e)
         r == IF fixture THEN NoResponse ELSE resp
         n == IF ~valid \/ fixture THEN 0 ELSE 1
     IN  /\ CallsTotal + n <= MaxCalls
         /\ states' = IF valid
                        THEN legacy_control_cache(states, fixture, d, cmd, r)
                        ELSE states
         /\ apiCount' = legacy_count_calls(apiCount, today, n)
         /\ callsMade' = Called(n)
         /\ last' = IF valid
                      THEN Record("set_preset_mode", d, cmd, r,
                                  legacy_control_ret(states, fixture, d, cmd, r),
                                  n, NoState)
                      ELSE Record("set_preset_mode", d, NoCommand, NoResponse,
                                  Ret("raise"), 0, NoState)
  /\ request' = Request("set_preset_mode", name, NoValue)
  /\ UNCHANGED sessionVars
  /\ UNCHANGED modeVars
  /\ UNCHANGED << today, fixture, scanInterval, updateInterval, inFlight, control, loaded,
                  lastMode, lastHumidityByMode, humidityOf >>

\* GoveeLifePlatformEntity.available: the raw cached record is scanned and
\* the last online entry decides; a device without a cached record raises
\* KeyError, which is caught and reported as not available.
available(st, d) ==
  LET hits == { i \in 1..Len(st[d].caps) : st[d].caps[i].type = "online" }
  IN  /\ st[d].present
      /\ hits # {}
      /\ st[d].caps[CHOOSE i \in hits : \A j \in hits : j <= i].value = 1

\* An entity that never reads as on.
is_on_never(st, d) == FALSE

\* GoveeLifeLight.is_on and GoveeLifeFan.is_on: the value the legacy reader
\* returns for powerSwitch maps to STATE_ON.
is_on(st, d) ==
  GoveeAPI_GetCachedStateValue(st, d, "on_off", "powerSwitch") = 1

\* GoveeLifeHumidifier.is_on: the value the typed reader returns for
\* powerSwitch maps to STATE_ON; None and unmapped values read as off.
humidifier_is_on(st, d) ==
  get_capability_value(st, d, "on_off", "powerSwitch") = 1

\* The on_off command of _state_mapping_set: 1 for STATE_ON, 0 for STATE_OFF.
PowerCommand(v) == [type |-> "on_off", instance |-> "powerSwitch", value |-> v]

\* GoveeLifeLight.async_turn_on(color_temp_kelvin = k), k = NoValue for a
\* call without that argument: the colour temperature is sent as given
\* (lines 180-187), then the power command when the light is not on.
LightTurnOn(d, k, resp, resp2) ==
  /\ LET cmd == [type |-> "color_setting", instance |-> "colorTemperatureK",
                 value |-> k]
         r == IF fixture THEN NoResponse ELSE resp
         r2 == IF fixture THEN NoResponse ELSE resp2
         st1 == IF k = NoValue THEN states
                ELSE legacy_control_cache(states, fixture, d, cmd, r)
         power == ~is_on(st1, d)
         cmd2 == [type |-> "on_off", instance |-> "powerSwitch", value |-> 1]
         n1 == IF k = NoValue \/ fixture THEN 0 ELSE 1
         n == IF power /\ ~fixture THEN n1 + 1 ELSE n1
     IN  /\ CallsTotal + n <= MaxCalls
         /\ states' = IF power
                        THEN legacy_control_cache(st1, fixture, d, cmd2, r2)
                        ELSE st1
         /\ apiCount' = legacy_count_calls(apiCount, today, n)
         /\ callsMade' = Called(n)
         /\ last' = IF power
                      THEN Record("light_turn_on", d, cmd2, r2,
                                  legacy_control_ret(st1, fixture, d, cmd2, r2),
                                  n, NoState)
                      ELSE Record("light_turn_on", d, cmd, r,
                                  legacy_control_ret(states, fixture, d, cmd, r),
                                  n, NoState)
  /\ request' = Request("light_turn_on", "none", k)
  /\ UNCHANGED sessionVars
  /\ UNCHANGED modeVars
  /\ UNCHANGED << today, fixture, scanInterval, updateInterval, inFlight, control, loaded,
                  lastMode, lastHumidityByMode, humidityOf >>

\* What async_set_mode(mode) does for device d on the cache st with the
\* vendor's answers r and r2: whether the name was accepted, whether the
\* work-mode command succeeded, whether a humidity was restored, the cache
\* it leaves and the calls it made.
set_mode_outcome(st, d, mode, r, r2) ==
  LET e == table.mappingSet[mode]
      valid == set_mode_accepts(table, mode)
      cmd == WorkModeCommand(e)
      st1 == control_device_cache(st, fixture, d, cmd, r)
      ok == valid /\ control_device_ret(fixture, cmd, r).client = "true"
      restore == /\ ok
                 /\ e.modeValue # NoValue /\ is_humidity_value(d, e.modeValue)
                 /\ lastHumidityByMode[mode] # NoValue
                 /\ lastHumidityByMode[mode] # e.modeValue
      cmd2 == RangeCommand("humidity", lastHumidityByMode[mode])
  IN  [valid |-> valid, ok |-> ok, restore |-> restore,
       states |-> IF ~valid THEN st
                  ELSE IF restore
                    THEN control_device_cache(st1, fixture, d, cmd2, r2)
                  ELSE st1,
       calls |-> IF ~valid \/ fixture THEN 0 ELSE IF restore THEN 2 ELSE 1]

\* A turn_on that restores the remembered mode whether or not the power
\* command succeeded.
restores_mode_regardless(ok, mode, t) ==
  mode # "none" /\ t.mappingSet[mode].present

\* async_turn_on, lines 301-302: the power command succeeded, a mode is
\* remembered and it is a key of the preset mapping.
restores_mode(ok, mode, t) ==
  ok /\ mode # "none" /\ t.mappingSet[mode].present

\* GoveeLifeHumidifier.async_turn_on of device d's entity: nothing when the
\* entity reads as on; else the power command and, when that succeeded,
\* async_set_mode for the remembered mode, whose exceptions are swallowed.
HumidifierTurnOn(d, resp, resp2, resp3) ==
  /\ reg.done /\ platform = "humidifier"
  /\ LET on == humidifier_is_on(states, d)
         cmd == PowerCommand(1)
         r == IF fixture THEN NoResponse ELSE resp
         r2 == IF fixture THEN NoResponse ELSE resp2
         r3 == IF fixture THEN NoResponse ELSE resp3
         ret == control_device_ret(fixture, cmd, r)
         st1 == control_device_cache(states, fixture, d, cmd, r)
         reissue == ~on /\ restores_mode(ret.client = "true", lastMode[d], table)
         out == set_mode_outcome(st1, d, lastMode[d], r2, r3)
         n1 == IF on \/ fixture THEN 0 ELSE 1
         n == IF reissue THEN n1 + out.calls ELSE n1
     IN  /\ CallsTotal + n <= MaxCalls
         /\ states' = IF on THEN states ELSE IF reissue THEN out.states ELSE st1
         /\ apiCount' = IF reissue
                          THEN count_calls(count_calls(apiCount, today, n1),
                                           today, out.calls)
                          ELSE count_calls(apiCount, today, n1)
         /\ callsMade' = Called(n)
         /\ clientSession' = IF on THEN clientSession
                             ELSE ensure_session(clientSession, "entity", fixture)
         /\ sessions' = IF on THEN sessions
                        ELSE sessions + opened(clientSession, "entity", fixture)
         /\ last' = IF on
                      THEN Record("humidifier_turn_on", d, NoCommand, NoResponse,
                                  Ret("none"), 0, NoState)
                             @@ [reissued |-> FALSE]
                      ELSE Record("humidifier_turn_on", d, cmd, r, ret, n,
                                  control_device_put(states, fixture, d, cmd, r))
                             @@ [reissued |-> reissue]
  /\ request' = Request("turn_on", "none", NoValue)
  /\ UNCHANGED modeVars
  /\ UNCHANGED << today, fixture, scanInterval, updateInterval, inFlight,
                  control, loaded, lastMode, lastHumidityByMode, humidityOf >>

\* GoveeLifeHumidifier.async_turn_off of device d's entity.
HumidifierTurnOff(d, resp) ==
  /\ reg.done /\ platform = "humidifier"
  /\ LET on == humidifier_is_on(states, d)
         cmd == PowerCommand(0)
         r == IF fixture THEN NoResponse ELSE resp
         n == IF ~on \/ fixture THEN 0 ELSE 1
     IN  /\ CallsTotal + n <= MaxCalls
         /\ states' = IF on THEN control_device_cache(states, fixture, d, cmd, r)
                      ELSE states
         /\ apiCount' = count_calls(apiCount, today, n)
         /\ callsMade' = Called(n)
         /\ clientSession' = IF on
                               THEN ensure_session(clientSession, "entity", fixture)
                               ELSE clientSession
         /\ sessions' = IF on
                          THEN sessions + opened(clientSession, "entity", fixture)
                          ELSE sessions
         /\ last' = IF on
                      THEN Record("humidifier_turn_off", d, cmd, r,
                                  control_device_ret(fixture, cmd, r), n,
                                  control_device_put(states, fixture, d, cmd, r))
                      ELSE Record("humidifier_turn_off", d, NoCommand, NoResponse,
                                  Ret("none"), 0, NoState)
  /\ request' = Request("turn_off", "none", NoValue)
  /\ UNCHANGED modeVars
  /\ UNCHANGED << today, fixture, scanInterval, updateInterval, inFlight,
                  control, loaded, lastMode, lastHumidityByMode, humidityOf >>

\* async_turn_on (v = 1) and async_turn_off (v = 0) of a fan or light entity
\* of device d, named op: the power command through the legacy helper when
\* the entity does not read as wanted, nothing otherwise.
LegacyPower(op, d, v, resp) ==
  /\ LET wanted == (is_on(states, d) <=> v = 1)
         cmd == PowerCommand(v)
         r == IF fixture THEN NoResponse ELSE resp
         n == IF wanted \/ fixture THEN 0 ELSE 1
     IN  /\ CallsTotal + n <= MaxCalls
         /\ states' = IF wanted THEN states
                      ELSE legacy_control_cache(states, fixture, d, cmd, r)
         /\ apiCount' = legacy_count_calls(apiCount, today, n)
         /\ callsMade' = Called(n)
         /\ last' = IF wanted
                      THEN Record(op, d, NoCommand, NoResponse, Ret("none"), 0,
                                  NoState)
                      ELSE Record(op, d, cmd, r,
                                  legacy_control_ret(states, fixture, d, cmd, r),
                                  n, NoState)
  /\ request' = Request(IF v = 1 THEN "turn_on" ELSE "turn_off", "none", NoValue)
  /\ UNCHANGED sessionVars
  /\ UNCHANGED modeVars
  /\ UNCHANGED << today, fixture, scanInterval, updateInterval, inFlight,
                  control, loaded, lastMode, lastHumidityByMode, humidityOf >>

\* GoveeLifeFan.async_turn_on / async_turn_off of device d's entity.
FanTurnOn(d, resp) ==
  /\ reg.done /\ platform = "fan"
  /\ LegacyPower("fan_turn_on", d, 1, resp)

FanTurnOff(d, resp) ==
  /\ reg.done /\ platform = "fan"
  /\ LegacyPower("fan_turn_off", d, 0, resp)

\* GoveeLifeLight.async_turn_off of device d's entity.
LightTurnOff(d, resp) == LegacyPower("light_turn_off", d, 0, resp)

\* The descriptor the entities of the handler specification are built from:
\* the workMode field first, a gear selector with two children and Auto.
EntityDescriptors ==
  { [workModeFirst |-> TRUE,
     options |-> << Option("gearMode", TRUE, NoValue, NoValue, FALSE, NoValue,
                           << Child("Low", 1), Child("High", 2) >>),
                    Option("Auto", FALSE, NoValue, NoValue, TRUE, 3, << >>) >>] }

\* What the vendor reports for the humidifier d1 when it answers with the
\* device's work mode as well: the gear selector's two values, Auto, and a
\* pair no preset stands for.
ModePayloads ==
  { << [type |-> "on_off", instance |-> "powerSwitch", value |-> 1],
       [type |-> "range", instance |-> "humidity", value |-> 0],
       [type |-> "work_mode", instance |-> "workMode", value |-> wm[1],
        modeValue |-> wm[2]] >> :
      wm \in { <<1, 1>>, <<1, 2>>, <<3, 3>>, <<2, 0>> } }

ModeStateResponses ==
  { [http |-> 200, payload |-> SomeState(p), hasCap |-> FALSE, status |-> ""] :
      p \in ModePayloads }

\* Preset names a caller asks for; "Sleep" is in no table built here.
RequestedModes == {"Low", "Auto", "Sleep"}

NextEntity ==
  \/ /\ ~reg.done
     /\ \E p \in {"humidifier", "fan"}, desc \in EntityDescriptors : Register(p, desc)
  \/ \E d \in Devices : \E resp \in ApiStateResponses(d) : GetDeviceState(d, resp)
  \/ \E resp \in ModeStateResponses : GetDeviceState("d1", resp)
  \/ \E d \in Devices, mode \in RequestedModes, resp, resp2 \in ControlResponses :
       HumidifierSetMode(d, mode, resp, resp2)
  \/ \E d \in Devices, h \in Requested, resp \in ControlResponses :
       HumidifierSetHumidity(d, h, resp)
  \/ \E d \in Devices, name \in RequestedModes, resp \in ControlResponses :
       FanSetPresetMode(d, name, resp)
  \/ \E d \in Devices, k \in Requested \cup {NoValue},
        resp, resp2 \in ControlResponses :
       LightTurnOn(d, k, resp, resp2)

SpecEntity == Init /\ [][NextEntity]_vars

\* The vendor's answers the power, mode and humidity handlers tell apart: the
\* command echoed with status success or failure.
HandlerResponses == { r \in ControlResponses : r.hasCap }

\* The humidifier entities of both devices: an earlier fetch has cached a
\* state with the device's work mode, and the handlers run with or without
\* the fixture.
NextHumidifier ==
  \/ /\ ~reg.done
     /\ \E desc \in EntityDescriptors : Register("humidifier", desc)
  \/ \E d \in Devices :
       /\ ~states[d].present
       /\ \E s \in ModePayloads : CachePut(d, s)
  \/ \E d \in Devices, mode \in RequestedModes, resp, resp2 \in HandlerResponses :
       HumidifierSetMode(d, mode, resp, resp2)
  \/ \E d \in Devices, h \in Requested, resp \in HandlerResponses :
       HumidifierSetHumidity(d, h, resp)

SpecHumidifier == Init /\ [][NextHumidifier]_vars

\* The same payloads with the device switched off or on.
PowerModePayloads ==
  { [s EXCEPT ![1].value = v] : s \in ModePayloads, v \in {0, 1} }

\* One humidifier switched on and off between mode changes, with the fixture
\* put in place and taken away.
NextRestore ==
  \/ /\ ~reg.done
     /\ \E desc \in EntityDescriptors : Register("humidifier", desc)
  \/ /\ ~states["d1"].present
     /\ \E s \in PowerModePayloads : CachePut("d1", s)
  \/ ToggleFixture
  \/ \E mode \in RequestedModes, resp, resp2 \in HandlerResponses :
       HumidifierSetMode("d1", mode, resp, resp2)
  \/ \E resp, resp2, resp3 \in HandlerResponses :
       HumidifierTurnOn("d1", resp, resp2, resp3)
  \/ \E resp \in HandlerResponses : HumidifierTurnOff("d1", resp)

SpecRestore == Init /\ [][NextRestore]_vars

\* The power handlers of the three entity classes on a device whose state
\* an earlier fetch has cached.
NextPower ==
  \/ /\ ~reg.done
     /\ \E p \in {"humidifier", "fan"}, desc \in EntityDescriptors : Register(p, desc)
  \/ \E d \in Devices :
       /\ ~states[d].present
       /\ \E s \in Payloads("d1") : CachePut(d, s)
  \/ \E d \in Devices, resp, resp2, resp3 \in HandlerResponses :
       HumidifierTurnOn(d, resp, resp2, resp3)
  \/ \E d \in Devices, resp \in HandlerResponses : HumidifierTurnOff(d, resp)
  \/ \E d \in Devices, resp \in HandlerResponses : FanTurnOn(d, resp)
  \/ \E d \in Devices, resp \in HandlerResponses : FanTurnOff(d, resp)
  \/ \E d \in Devices, resp \in HandlerResponses : LightTurnOff(d, resp)

SpecPower == Init /\ [][NextPower]_vars

\* The unloading of a set-up entry whose cache holds states.
NextUnload ==
  \/ \E results \in UnloadVectors : UnloadEntry(results)
  \/ /\ loaded /\ ~states["d1"].present
     /\ \E s \in PutStates : CachePut("d1", s)

SpecUnload == Init /\ [][NextUnload]_vars


\* ================================================================= claims
ControlOps == {"control_device", "legacy_control_device"}

\* The control call that ran last reported success to its caller.
ReportedSuccess ==
  \/ last.op = "control_device" /\ last.ret.compat = "true"
  \/ last.op = "legacy_control_device" /\ last.ret.kind = "true"

\* What the reader paired with the client that ran last returns for the
\* sent (type, instance).
ReadBack ==
  IF last.op = "legacy_control_device"
    THEN GoveeAPI_GetCachedStateValue(states, last.dev, last.cmd.type, last.cmd.instance)
    ELSE get_capability_value(states, last.dev, last.cmd.type, last.cmd.instance)

\* C1: right after a control call that reported success, and before any
\* poll, reading the sent (type, instance) of that device from the cache
\* returns the sent value.
C1_SuccessReadsBack ==
  ReportedSuccess => ReadBack = last.cmd.value

\* C2: a control call answered 200 with state status "failure" leaves the
\* state cache as it was and hands the caller the vendor's {errorCode,
\* errorMsg}.
C2_FailureLeavesCache ==
  [][ (last'.op \in ControlOps /\ last'.resp.http = 200
         /\ last'.resp.status = "failure")
      => /\ states' = states
         /\ last'.ret.errorCode = 123 /\ last'.ret.errorMsg = "busy"
         /\ (last'.op = "control_device" => last'.ret.compat = "error")
         /\ (last'.op = "legacy_control_device" => last'.ret.kind = "error") ]_vars

\* C3: a poll the vendor answers with 401 or 429 makes the coordinator
\* raise ConfigEntryAuthFailed.
C3_AuthFailureIsFatal ==
  (last.op = "coordinator_update" /\ last.resp.http \in {401, 429})
    => last.ret.kind = "auth_failed"


\* The value a state s stores for (type, instance), NoValue if s has no
\* entry for the pair.
Stored(s, k, v) ==
  \/ \E i \in 1..Len(s) :
       s[i].type = k.type /\ s[i].instance = k.instance /\ s[i].value = v
  \/ /\ v = NoValue
     /\ \A i \in 1..Len(s) : ~(s[i].type = k.type /\ s[i].instance = k.instance)

\* C4: right after the cache's put(d, s), getCapabilityValue(d, type,
\* instance) returns the value s stores for the pair, and absent for a pair
\* s does not contain.
C4_PutThenGet ==
  last.put.present =>
    \A k \in CapKeys :
      Stored(last.put.caps, k,
             get_capability_value(states, last.dev, k.type, k.instance))

\* A poll has put a state with power on, and it reads back.
C4_Witness ==
  /\ last.op = "get_device_state" /\ last.put.present
  /\ get_capability_value(states, last.dev, "on_off", "powerSwitch") = 1
  /\ get_capability_value(states, last.dev, "online", "online") = NoValue

\* C5: with the fixture present, getDeviceState returns the device's
\* recorded fixture state and the daily call counter stays as it was.
C5_FixtureState ==
  [][ (fixture /\ last'.op \in {"get_device_state", "legacy_get_device_state"})
      => /\ apiCount' = apiCount
         /\ (last'.op = "get_device_state"
               => /\ last'.ret.kind = "state"
                  /\ last'.ret.state = SomeState(FixtureStates[last'.dev]))
         /\ (last'.op = "legacy_get_device_state"
               => /\ last'.ret.kind = "true"
                  /\ states'[last'.dev] = SomeState(FixtureStates[last'.dev])) ]_vars

\* C6: with the fixture present, controlDevice reports success for every
\* command, its result echoes the sent type, instance and value with code 200
\* and status "success", and no outbound call is made.
C6_FixtureControl ==
  (fixture /\ last.op \in ControlOps)
    => /\ last.calls = 0
       /\ ReportedSuccess
       /\ (last.op = "control_device"
             => /\ last.ret.code = 200 /\ last.ret.status = "success"
                /\ last.ret.cap = last.cmd)

\* C7: while the fixture is present no operation of either client makes an
\* outbound call.
C7_FixtureNoCalls ==
  (fixture /\ last.op \in ControlOps \cup
       {"get_device_state", "legacy_get_device_state", "get_devices",
        "legacy_get_devices"})
    => last.calls = 0

\* C8: over the network, controlDevice reports success exactly when the
\* answer is HTTP 200 and the echoed capability's status is not "failure",
\* whatever the cache holds.
C8_SuccessCriteria ==
  (~fixture /\ last.op \in ControlOps /\ (last.resp.hasCap \/ last.resp.http # 200))
    => (ReportedSuccess <=> (last.resp.http = 200 /\ last.resp.status # "failure"))

\* The count entry_data[CONF_API_COUNT] holds for date d: the dict's entry
\* for d plus the {count, date} record when it is dated d.
api_count(ac, d) ==
  ac.perDay[d] + (IF ac.legacy /\ ac.date = d THEN ac.count ELSE 0)

\* C9: the call counter for every date equals the number of outbound calls
\* made on that date.
C9_CounterIsCalls ==
  \A d \in Days : api_count(apiCount, d) = callsMade[d]

\* C10: every cached DeviceState holds at most one entry per (type,
\* instance).
C10_OnePerPair ==
  \A d \in Devices : states[d].present => NoDuplicates(states[d].caps)

\* A reconciliation has replaced an entry of a two-entry state.
C10_Witness ==
  /\ ReportedSuccess
  /\ states[last.dev].present /\ Len(states[last.dev].caps) = 2
  /\ ReadBack = 1
  /\ last.op = "legacy_control_device"

\* C11: a call of set_poll_interval stores the entry-level value and touches
\* neither a coordinator's update interval nor a poll in flight, and a
\* coordinator's update interval changes only in the step that ends one of
\* its own polls.
C11_IntervalOnNextTick ==
  [][ /\ \A v \in PollIntervals :
           SetPollInterval(v) =>
             /\ scanInterval' = v
             /\ updateInterval' = updateInterval
             /\ inFlight' = inFlight
      /\ \A d \in Devices :
           updateInterval'[d] # updateInterval[d] =>
             (last'.op = "coordinator_update" /\ last'.dev = d) ]_vars

\* A poll answer that is a failure other than 401/429: a transport
\* exception, timeout or malformed body, another non-200 status, or a 200
\* body without a payload that validates.
Transient(resp) ==
  /\ resp.http \notin {401, 429, -1}
  /\ ~(resp.http = 200 /\ resp.payload.present /\ validates(resp.payload.caps))

\* C12: a poll that fails for a reason other than 401/429 raises nothing to
\* the host, leaves the state cache as it was, and leaves the coordinator
\* idle for its next tick.
C12_TransientFailure ==
  [][ (last'.op = "coordinator_update" /\ Transient(last'.resp))
      => /\ last'.ret.kind \in {"false", "none"}
         /\ states' = states
         /\ ~inFlight'[last'.dev] ]_vars

\* A poll of a device with a cached state has failed on a transport
\* exception and the cached state is still there.
C12_Witness ==
  /\ last.op = "coordinator_update" /\ last.resp.http = 0
  /\ last.ret.kind = "false"
  /\ states[last.dev].present
  /\ ~inFlight[last.dev]

\* The presets of the mode table.
Presets(t) == { n \in ModeNames : t.mappingSet[n].present }

\* C14: a descriptor whose modeValue options are all standalone produces as
\* many presets as it has options not named "Custom".
C14_StandaloneCount ==
  (reg.done /\ \A i \in 1..Len(reg.desc.options) : ~reg.desc.options[i].parent)
    => Cardinality(Presets(table))
         = Cardinality({ i \in 1..Len(reg.desc.options) :
                           reg.desc.options[i].name # "Custom" })

\* C15: every child of a parent option whose name the workMode field
\* declares has produced the preset named after it, with the parent's
\* declared value as workMode and the child's own value as modeValue.
C15_ChildPresets ==
  reg.done =>
    \A i \in 1..Len(reg.desc.options) :
      LET o == reg.desc.options[i]
      IN  (o.parent /\ Declared(o.name) # NoValue) =>
            \A j \in 1..Len(o.children) :
              table.mappingSet[o.children[j].name] =
                [present |-> TRUE, workMode |-> Declared(o.name),
                 modeValue |-> o.children[j].value]

\* The value the priority order gives a standalone option: its value; else
\* its default; else its range's minimum; else 0.
Prescribed(o, v) ==
  /\ o.value # NoValue => v = o.value
  /\ (o.value = NoValue /\ o.defaultValue # NoValue) => v = o.defaultValue
  /\ (o.value = NoValue /\ o.defaultValue = NoValue /\ o.rangeMin # NoValue)
       => v = o.rangeMin
  /\ (o.value = NoValue /\ o.defaultValue = NoValue /\ o.rangeMin = NoValue)
       => v = 0

\* C16: in a table the humidifier or the mixin has built to the end, the
\* preset of a standalone option holds the value the priority order
\* prescribes for the last option of that name.
C16_ValuePriority ==
  (reg.done /\ platform \in {"humidifier", "mixin"} /\ ~table.raised)
    => \A i \in 1..Len(reg.desc.options) :
         LET o == reg.desc.options[i]
         IN  (/\ ~o.parent /\ o.name # "Custom"
              /\ table.mappingSet[o.name].present
              /\ \A j \in (i + 1)..Len(reg.desc.options) :
                   reg.desc.options[j].name # o.name)
             => Prescribed(o, table.mappingSet[o.name].modeValue)

\* The humidifier has built the preset of an option that carries neither a
\* value nor a default from the minimum of its range.
C16_Witness ==
  /\ reg.done /\ platform = "humidifier" /\ ~table.raised
  /\ Len(reg.desc.options) = 1
  /\ reg.desc.options[1].value = NoValue
  /\ reg.desc.options[1].defaultValue = NoValue
  /\ reg.desc.options[1].rangeMin = 3
  /\ table.mappingSet["Auto"].present
  /\ table.mappingSet["Auto"].modeValue = 3

\* The request names a preset the mode table lacks, or a control value
\* outside the declared range.
InvalidRequest(r, t) ==
  \/ r.op \in {"set_mode", "set_preset_mode"} /\ ~t.mappingSet[r.name].present
  \/ r.op = "set_humidity" /\ ~InRange(r.value)
  \/ r.op = "light_turn_on" /\ r.value # NoValue /\ ~InRange(r.value)

\* C13: a handler asked for a preset name that is not in the mode table, or
\* for a control value outside the declared range, makes no outbound call and
\* leaves the call counter and the state cache as they were.
C13_RejectedBeforeCall ==
  [][(last'.op \in EntityOps /\ InvalidRequest(request', table))
       => (callsMade' = callsMade /\ apiCount' = apiCount /\ states' = states)]_vars

\* C17: at most one HTTP session of the integration instance is open at a
\* time, and none is open once the entry is unloaded.
C17_OneSession == sessions <= 1 /\ (~loaded => sessions = 0)

\* The state the fetch that ran last handed to its caller: the typed client
\* returns it, the legacy helper stores the record it received.
Fetched ==
  IF last.op = "get_device_state" THEN last.ret.state
  ELSE IF fixture THEN SomeState(FixtureStates[last.dev])
  ELSE last.resp.payload

\* C19: right after a fetch of a device's state that produced a state, from
\* the network or from the fixture, the cache's get of that device returns
\* that same state.
C19_FetchedIsCached ==
  /\ (last.op = "get_device_state" /\ last.ret.kind = "state")
       => cache_getitem(states, last.dev) = Fetched
  /\ (last.op = "legacy_get_device_state" /\ last.ret.kind = "true")
       => states[last.dev] = Fetched

\* Entry b is entry a, with cmd's value if a is the entry cmd addresses.
OnlyValueOf(a, b, cmd) ==
  \/ b = a
  \/ /\ SameKey(a, cmd)
     /\ b = [a EXCEPT !.value = cmd.value]

\* C20: a control call changes, of the whole cache, at most the value of the
\* entry of its device that matches the sent (type, instance): the device's
\* entries keep their number and order, every other entry and every other
\* device's state stay as they were.
C20_ReconcileFrame ==
  [][ last'.op \in ControlOps
      => /\ \A d \in Devices \ {last'.dev} : states'[d] = states[d]
         /\ states'[last'.dev].present = states[last'.dev].present
         /\ Len(states'[last'.dev].caps) = Len(states[last'.dev].caps)
         /\ \A i \in 1..Len(states[last'.dev].caps) :
              OnlyValueOf(states[last'.dev].caps[i], states'[last'.dev].caps[i],
                          last'.cmd) ]_vars

\* C21: once set_poll_interval has been called with a value, every poll
\* attempt that finishes afterwards, whatever its outcome, leaves its
\* coordinator's update interval equal to that value.
C21_RederivedAfterEveryPoll ==
  (last.op = "coordinator_update" /\ request.op = "set_poll_interval")
    => updateInterval[last.dev] = request.value

\* C22: a poll attempt that ends with the fixture present and no runtime
\* interval stored leaves the coordinator at the fixed 3600 s; with a runtime
\* interval stored it leaves it at that value; with neither it leaves the
\* interval as it was.
C22_DerivedInterval ==
  [][ last'.op = "coordinator_update"
      => /\ (fixture /\ scanInterval = NoInterval)
              => updateInterval'[last'.dev] = DebugInterval
         /\ scanInterval # NoInterval
              => updateInterval'[last'.dev] = scanInterval
         /\ (~fixture /\ scanInterval = NoInterval)
              => updateInterval'[last'.dev] = updateInterval[last'.dev] ]_vars

\* C23: a getDeviceState or controlDevice call that meets a transport
\* failure (an exception of the transport, a timeout, a malformed body, a
\* status other than 200, 401 and 429) raises nothing and returns absent.
C23_TransportReturnsAbsent ==
  (last.op \in {"get_device_state", "control_device"}
     /\ last.resp.http \notin {200, 401, 429, -1})
    => last.ret.kind = "none"

\* The option's name is one the workMode field declares.
IsDeclaredOption(o) == Declared(o.name) # NoValue

\* The descriptor without the modeValue options of undeclared names.
DeclaredOnly(desc) ==
  [desc EXCEPT !.options = SelectSeq(desc.options, IsDeclaredOption)]

\* C24: a modeValue option whose name the workMode field does not declare is
\* skipped: the table built from the descriptor is the one built from the
\* descriptor without such options, so the build does not raise on them and
\* the other options are processed as they would be without them.
C24_UndeclaredSkipped ==
  (reg.done /\ \E i \in 1..Len(reg.desc.options) :
                 ~IsDeclaredOption(reg.desc.options[i]))
    => table = process_work_mode_capability(platform, NoTable,
                                            DeclaredOnly(reg.desc))

\* C25: the mode table of the device registered first is the table built
\* from that device's descriptor, whatever devices are registered after it.
C25_TableImmutable ==
  reg.done =>
    LET own == process_work_mode_capability(platform, NoTable, reg.desc)
    IN  /\ table.mappingSet = own.mappingSet
        /\ table.mapping = own.mapping
        /\ table.modes = own.modes

\* C26: every entry of the mode table of the device registered first has a
\* workMode that the options of that device's workMode field declare.
C26_WorkModeDeclared ==
  \A n \in Presets(table) : table.mappingSet[n].workMode \in DeclaredWorkModes

\* The descriptor with its two fields listed in the other order.
Swapped(desc) == [desc EXCEPT !.workModeFirst = ~@]

\* C27: the presets built from a descriptor are those built from the same
\* descriptor with the modeValue and workMode fields in the other order.
C27_FieldOrder ==
  reg.done =>
    table.mappingSet
      = process_work_mode_capability(platform, NoTable, Swapped(reg.desc)).mappingSet

C29_NoCustomPreset == "Custom" \notin Presets(table)

\* The value of the first entry of s, in stored order, for the pair k;
\* NoValue if s has none.
FirstValue(s, k) ==
  LET hits == { i \in 1..Len(s) :
                  s[i].type = k.type /\ s[i].instance = k.instance }
  IN  IF hits = {} THEN NoValue
      ELSE s[CHOOSE i \in hits : \A j \in hits : i <= j].value

\* C30: a read of a (type, instance) from a device's cached capability list
\* returns the value of the first entry, in stored order, that matches.
C30_FirstMatch ==
  last.op \in {"get_cached_state_value", "legacy_get_cached_state_value"}
    => last.cmd.value = FirstValue(states[last.dev].caps, last.cmd)

\* Every entry of the list a is an entry of the list b.
OnlyFrom(a, b) ==
  \A i \in 1..Len(a) : \E j \in 1..Len(b) : a[i] = b[j]

\* C31: a put over a cached state leaves exactly the new state: get(d) is the
\* state just put and holds no entry that only the replaced state had.
C31_OneGeneration ==
  [][ (/\ last'.op \in {"cache_setitem", "get_device_state"}
       /\ last'.put.present
       /\ states[last'.dev].present)
        => /\ cache_getitem(states', last'.dev) = last'.put
           /\ OnlyFrom(states'[last'.dev].caps, last'.put.caps) ]_vars

\* A put has replaced a state that held an entry the new state lacks, and
\* the cache reads back the new state.
C31_Witness ==
  /\ last.op = "cache_setitem"
  /\ last.before.present
  /\ ~OnlyFrom(last.before.caps, last.put.caps)
  /\ Len(last.put.caps) > 0
  /\ cache_getitem(states, last.dev) = last.put

SameButFor(a, b, cmd) ==
  \A k \in CapKeys :
    (k.type = cmd.type /\ k.instance = cmd.instance)
      \/ FirstValue(a, k) = FirstValue(b, k)

\* C33: when the answer to a control command is in, the reconciliation reads
\* the cached entry and writes it back in one step: the entry written differs
\* from the entry cached just before, whatever a poll stored there while the
\* command awaited its answer, in the reconciled capability at most.
C33_ReconcileAtomic ==
  [][ (control[last'.dev].sent /\ last'.op \in ControlOps)
        => /\ \A d \in Devices \ {last'.dev} : states'[d] = states[d]
           /\ states'[last'.dev].present = states[last'.dev].present
           /\ SameButFor(states[last'.dev].caps, states'[last'.dev].caps,
                         last'.cmd) ]_vars

\* A command was reconciled into an entry that a poll had replaced while the
\* command awaited its answer: another capability differs from what was
\* cached when the command was sent.
C33_Witness ==
  /\ last.op = "control_device" /\ last.put.present
  /\ control[last.dev].seen.present
  /\ ~SameButFor(control[last.dev].seen.caps, states[last.dev].caps, last.cmd)
  /\ get_capability_value(states, last.dev, last.cmd.type, last.cmd.instance)
       = last.cmd.value

\* The payload of the vendor's answer reports the online capability with
\* value v.
ReportsOnline(resp, v) ==
  /\ resp.http = 200 /\ resp.payload.present
  /\ \E i \in 1..Len(resp.payload.caps) :
       resp.payload.caps[i].type = "online" /\ resp.payload.caps[i].value = v

\* C34: after a poll answered with a payload that reports the online
\* capability, the payload is the device's cached state and its entities are
\* available exactly when the reported value is true; without a cached
\* state a device's entities are not available.
C34_AvailableAfterPoll ==
  /\ (last.op = "coordinator_update" /\ ReportsOnline(last.resp, 1))
       => (states[last.dev] = last.resp.payload /\ available(states, last.dev))
  /\ (last.op = "coordinator_update" /\ ReportsOnline(last.resp, 0))
       => (states[last.dev] = last.resp.payload /\ ~available(states, last.dev))
  /\ \A d \in Devices : ~states[d].present => ~available(states, d)

\* C35: on a cache where no device's list holds a (type, instance) twice,
\* the legacy reader and the typed reader return the same for every device
\* and every pair, absent included.
C35_ReadersAgree ==
  \A d \in Devices : \A k \in ReadKeys :
    NoDuplicates(states[d].caps)
      => GoveeAPI_GetCachedStateValue(states, d, k.type, k.instance)
           = get_capability_value(states, d, k.type, k.instance)

CachedPower(st, d) ==
  IF st[d].present
    THEN FirstValue(st[d].caps, [type |-> "on_off", instance |-> "powerSwitch"])
    ELSE NoValue

\* C37: turn_on of a device cached as on and turn_off of a device cached as
\* off send no command and leave the state cache and the call counter as
\* they were.
C37_AlreadyThere ==
  [][ (\/ /\ last'.op \in {"humidifier_turn_on", "fan_turn_on"}
          /\ CachedPower(states, last'.dev) = 1
       \/ /\ last'.op \in {"humidifier_turn_off", "fan_turn_off", "light_turn_off"}
          /\ CachedPower(states, last'.dev) = 0)
        => /\ last'.cmd = NoCommand /\ last'.calls = 0
           /\ states' = states
           /\ apiCount' = apiCount
           /\ callsMade' = callsMade ]_vars

\* Without the fixture, a fan cached as on was asked to turn on and no call
\* was made.
C37_Witness ==
  /\ ~fixture
  /\ last.op = "fan_turn_on" /\ last.cmd = NoCommand /\ last.calls = 0
  /\ CachedPower(states, last.dev) = 1

C39_UnloadAllOrNothing ==
  [][ last'.op = "unload_entry"
        => LET every == \A i \in DOMAIN last'.results : last'.results[i] = "ok"
           IN  /\ last'.ret.kind = "true" <=> every
               /\ every => ~loaded' /\ last'.unsubscribed
               /\ ~every => /\ loaded' /\ ~last'.unsubscribed
                             /\ states' = states /\ apiCount' = apiCount
                             /\ inFlight' = inFlight ]_vars

\* An unload in which the first platform failed and the ones after it
\* unloaded left a store that holds a cached state.
C39_Witness ==
  /\ last.op = "unload_entry" /\ last.ret.kind = "false"
  /\ last.results[1] = "failed"
  /\ \A i \in 2..Len(SupportedPlatforms) : last.results[i] = "ok"
  /\ loaded /\ states["d1"].present

====
